---- MODULE Spec2Model ----
(***************************************************************************)
(* Model of the qbsdk deployment scripts:                                  *)
(*   - collectFiles         (file classifier of qb-deploy-frontend)        *)
(*   - uploadFileWithRetry  (retry with exponential backoff)               *)
(*   - syncToS3             (sequential upload of the task list)           *)
(*   - waitForDeployment    (poll until terminal, qb-deploy-server)        *)
(*   - deploy               (qb-deploy-frontend and qb-deploy-server)      *)
(*   - qb-db-migrate        (the migration runner)                         *)
(*   - createArchive, deploy (the archive-based qb-deploy-frontend)        *)
(*   - deployAll            (qb-deploy-cron-and-comms)                     *)
(* Paths are sequences of path segments: the string "a/dist/x.js" is the   *)
(* sequence <<"a", "dist", "x.js">>; segment names hold no separator.      *)
(***************************************************************************)
EXTENDS Integers, Sequences, FiniteSets, TLC

VARIABLES
  \* file classifier (collectFiles)
  tree,        \* the directory tree under ROOT_DIR: a set of entries
  unreadable,  \* the directories readdirSync throws on
  unstattable, \* the entries lstatSync throws on
  cpc,         \* "setup" while the tree is laid out, "done" once collected
  collected,   \* what collectFiles(ROOT_DIR) returned
  \* uploadFileWithRetry
  upc,         \* "idle", "try" (at the loop test), "wait" (in the backoff), "done"
  ufile,       \* the file argument
  maxRetries,  \* the attempt limit argument
  attempt,     \* the loop counter
  lastError,   \* the error caught last
  pendingWait, \* waitTime of the backoff in progress
  outcomes,    \* the outcome of every invocation of the upload, in order
  waits,       \* the backoff waits completed, in order
  uresult,     \* the value returned
  \* syncToS3
  spc,         \* "idle", "start", "loop", "awaiting", "done"
  allFiles,    \* the task list
  idx,         \* position of the for loop in allFiles
  errors,      \* the error list
  uploaded,    \* the count of successful uploads
  calls,       \* the files uploadFileWithRetry was called on, in order
  exhausted,   \* the files uploadFileWithRetry returned failure for, in order
  syncResult,  \* the value returned
  \* waitForDeployment, and deploy of qb-deploy-server around it
  ppc,         \* "idle", "fetch" (at the loop test), "logs", "sleep", "returned", "thrown"
  maxAttempts, \* DENO_DEPLOYMENT_MAX_ATTEMPTS as parsed
  pattempt,    \* the loop counter
  statuses,    \* what every status fetch answered, in order
  sleeps,      \* the count of completed sleeps
  logAnswers,  \* what every build log fetch answered, in order
  pollValue,   \* the deployment returned, or the message of the Error thrown
  dpc,         \* deploy: "idle", "polling", "exited"
  urlRequests, \* the count of set-server-url requests sent
  deployLog,   \* what the catch of deploy printed
  exitCode,    \* the exit status of the process, -1 while it runs
  \* qb-db-migrate
  mpc,               \* "idle", "start", "ensure", "read", "loop", "psql", "record", "exited"
  databaseUrl,       \* env.DATABASE_URL
  disk,              \* the file names in backend/migrations
  table,             \* the filenames in the rows of _migrations
  tableAtStart,      \* table, as it was when the run started
  sqlFiles,          \* the sorted .sql files
  appliedMigrations, \* what getAppliedMigrations returned
  pendingMigrations, \* the files to apply
  mi,                \* position of the for loop in pendingMigrations
  running,           \* the migrations whose psql process is running
  started,           \* the files a psql process was spawned for, in order
  closed,            \* the psql processes that closed: file and exit status, in order
  appliedThisRun,    \* the files applied and recorded in this run
  selects,           \* the count of SELECT queries on _migrations
  inserts,           \* the INSERTs into _migrations: file and outcome, in order
  pulls,             \* the count of drizzle-kit pull runs
  summary,           \* the __MIGRATION_SUMMARY__ printed
  mexit,             \* the exit status of the process, -1 while it runs
  \* deploy of qb-deploy-frontend
  fpc,           \* "idle", "build", "sync", "notify", "exited"
  pkg,           \* package.json of ROOT_DIR
  lockfiles,     \* the lock files present in ROOT_DIR
  buildResult,   \* what buildFrontend returned
  buildCommand,  \* the command buildFrontend called spawn with, <<>> when none
  notifications, \* the bodies of the notify-frontend-deployed requests sent
  notifyResult,  \* what notifyCompletion returned
  fexit,         \* the exit status of the process, -1 while it runs
  \* requireEnvVars at the start of a command
  processEnv,    \* process.env after loadEnv: "unset" for a name that is not set
  envResult,     \* env, the map requireEnvVars returned
  \* deploy of the archive-based qb-deploy-frontend
  apc,                \* "idle", "build", "archive", "upload", "finally", "exited"
  includeSource,      \* process.argv.includes("--full")
  distDirs,           \* which of dist and frontend/dist exist in ROOT_DIR
  archiveOnDisk,      \* existsSync of deploy-frontend.tar.gz in ROOT_DIR
  archivePath,        \* the variable of deploy: "null" or the path of the archive
  archiveBuildResult, \* what buildFrontend returned
  archiveResult,      \* what createArchive returned
  tarArgs,            \* the arguments tar was spawned with
  uploadResult,       \* what uploadToBackend returned
  cleanup,            \* the unlinkSync of the finally block: "none", "removed", "failed"
  aexit,              \* the exit status of the process, -1 while it runs
  \* deployAll of qb-deploy-cron-and-comms
  kpc,            \* "idle", "cron", "templates", "end", "exited"
  config,         \* CONFIG: its cron and communication_templates values
  requests,       \* the platformApiCall requests sent, in order
  hasFailure,     \* the flag of deployAll
  cronError,      \* "none" before sendCronConfig, "" when it returned, else what it threw
  templatesError, \* the same for sendTemplatesForApproval
  kexit           \* the exit status of the process, -1 while it runs

collectVars == <<tree, unreadable, unstattable, cpc, collected>>
retryVars == <<upc, ufile, maxRetries, attempt, lastError, pendingWait, outcomes, waits, uresult>>
syncVars == <<spc, allFiles, idx, errors, uploaded, calls, exhausted, syncResult>>
pollVars == <<ppc, maxAttempts, pattempt, statuses, sleeps, logAnswers, pollValue>>
deployVars == <<dpc, urlRequests, deployLog, exitCode>>
migrateVars ==
  <<mpc, databaseUrl, disk, table, tableAtStart, sqlFiles, appliedMigrations, pendingMigrations,
    mi, running, started, closed, appliedThisRun, selects, inserts, pulls, summary, mexit>>
frontVars ==
  <<fpc, pkg, lockfiles, buildResult, buildCommand, notifications, notifyResult, fexit>>
envVars == <<processEnv, envResult>>
archiveVars ==
  <<apc, includeSource, distDirs, archiveOnDisk, archivePath, archiveBuildResult, archiveResult,
    tarArgs, uploadResult, cleanup, aexit>>
cronVars == <<kpc, config, requests, hasFailure, cronError, templatesError, kexit>>
restVars == <<envVars, archiveVars, cronVars>>
vars ==
  <<collectVars, retryVars, syncVars, pollVars, deployVars, migrateVars, frontVars, restVars>>

\* what the actions of one command leave alone
outsideCollect ==
  <<retryVars, syncVars, pollVars, deployVars, migrateVars, frontVars, restVars>>
outsideRetry ==
  <<collectVars, spc, allFiles, idx, errors, uploaded, calls, syncResult, pollVars, deployVars,
    migrateVars, frontVars, restVars>>
outsideSync == <<pollVars, deployVars, migrateVars, frontVars, restVars>>
outsideDeploy == <<collectVars, retryVars, syncVars, migrateVars, frontVars, restVars>>
outsideMigrate == <<collectVars, retryVars, syncVars, pollVars, deployVars, frontVars, restVars>>
outsideFront == <<collectVars, retryVars, pollVars, deployVars, migrateVars, restVars>>
outsideEnv ==
  <<collectVars, retryVars, syncVars, pollVars, deployVars, migrateVars, archiveVars, cronVars>>
outsideArchive ==
  <<collectVars, retryVars, syncVars, pollVars, deployVars, migrateVars, frontVars, envVars,
    cronVars>>
outsideCron ==
  <<collectVars, retryVars, syncVars, pollVars, deployVars, migrateVars, frontVars, envVars,
    archiveVars>>

(***************************************************************************)
(* Bounds of the model.                                                    *)
(***************************************************************************)
MaxNodes == 5
MaxDepth == 5
MaxRetryLimit == 4
MaxPollAttempts == 4

\* Entry names, in the order readdirSync lists them.
DirOrder ==
  <<"a", "dist", "node_modules", "package-lock.json", "package.json", "source", "yarn.lock">>

\* The names the entries of the laid-out trees are drawn from.
Names == <<"a", "dist", "node_modules">>

(***************************************************************************)
(* Program constants.                                                      *)
(***************************************************************************)
MAX_FILE_SIZE == 52428800

CDN_CODEBASE_BASE_PATH == <<"coder-agent-output">>
URL_SLUG == <<"slug">>
RootDir == <<"root">>

FileSizes == {MAX_FILE_SIZE, MAX_FILE_SIZE + 1}

(***************************************************************************)
(* String helpers on segment sequences.                                    *)
(***************************************************************************)
Last(s) == s[Len(s)]

\* relPath.startsWith("dist/")
StartsWithDist(relPath) == Len(relPath) >= 2 /\ relPath[1] = "dist"

\* relPath.includes("/dist/")
IncludesDist(relPath) == \E k \in 2..(Len(relPath) - 1) : relPath[k] = "dist"

\* relPath.substring(5) when relPath starts with "dist/"
Substring5(relPath) == SubSeq(relPath, 2, Len(relPath))

\* relPath.split("/dist/"): the parts between the non-overlapping occurrences
\* of "/dist/", found left to right. A part starting at segment `from` ends
\* at the first later segment "dist" that has a segment after it.
RECURSIVE SplitFrom(_, _)
SplitFrom(relPath, from) ==
  LET hits == {k \in (from + 1)..(Len(relPath) - 1) : relPath[k] = "dist"}
  IN IF hits = {}
     THEN <<SubSeq(relPath, from, Len(relPath))>>
     ELSE LET k == CHOOSE h \in hits : \A g \in hits : h <= g
          IN <<SubSeq(relPath, from, k - 1)>> \o SplitFrom(relPath, k + 1)

SplitDist(relPath) == SplitFrom(relPath, 1)

\* join(dir, entry.name)
Join(dir, name) == Append(dir, name)

\* relative(rootDir, fullPath).replace(/\\/g, "/")
Relative(rootDir, fullPath) == SubSeq(fullPath, Len(rootDir) + 1, Len(fullPath))

(***************************************************************************)
(* collectFiles                                                            *)
(***************************************************************************)
BasePath == CDN_CODEBASE_BASE_PATH \o URL_SLUG

\* stats.isSymbolicLink() of lstatSync(fullPath)
LstatIsSymbolicLink(e) == e.kind = "symlink"

\* entry.isDirectory() of the Dirent: false for a symbolic link
DirentIsDirectory(e) == e.kind = "dir"

\* entry.isFile() of the Dirent: false for a symbolic link
DirentIsFile(e) == e.kind = "file"

IsNodeModulesMisspelt(name) == name = "node_module"

\* entry.name === "node_modules"
IsNodeModules(name) == name = "node_modules"

TooLargeInclusive(size) == size >= MAX_FILE_SIZE

\* stats.size > MAX_FILE_SIZE
TooLarge(size) == size > MAX_FILE_SIZE

\* relPath.startsWith("dist/") || relPath.includes("/dist/")
IsDist(relPath) == StartsWithDist(relPath) \/ IncludesDist(relPath)

DistRelPath(relPath) ==
  IF StartsWithDist(relPath)
  THEN Substring5(relPath)
  ELSE LET parts == SplitDist(relPath)
       IN IF Len(parts) > 1 THEN parts[2] ELSE relPath

DistKey(relPath) == BasePath \o <<"dist">> \o DistRelPath(relPath)

SourceKey(relPath) == BasePath \o <<"source">> \o relPath

LargeFileWarning(relPath, size) == <<"Skipping large file", relPath, size>>

UnreadableWarning(dir) == <<"Cannot read directory", dir>>

\* readdirSync(dir, {withFileTypes: true}): the entries of dir, in Names order
Readdir(t, dir) ==
  LET present == {i \in 1..Len(DirOrder) : \E e \in t : e.path = Join(dir, DirOrder[i])}
      RECURSIVE List(_)
      List(i) == IF i > Len(DirOrder) THEN <<>>
                 ELSE IF i \in present
                      THEN <<CHOOSE e \in t : e.path = Join(dir, DirOrder[i])>> \o List(i + 1)
                      ELSE List(i + 1)
  IN List(1)

\* ClassifyFile without the else of "if (isDist)": a dist file is also pushed
\* to sourceFiles.
ClassifyFileWithoutElse(e, fullPath, relPath, acc) ==
  IF TooLarge(e.size)
  THEN [acc EXCEPT !.warnings = Append(@, LargeFileWarning(relPath, e.size))]
  ELSE LET acc1 == IF IsDist(relPath)
                   THEN [acc EXCEPT !.distFiles =
                           Append(@, [fullPath |-> fullPath, s3Key |-> DistKey(relPath),
                                      size |-> e.size])]
                   ELSE acc
       IN [acc1 EXCEPT !.sourceFiles =
             Append(@, [fullPath |-> fullPath, s3Key |-> SourceKey(relPath), size |-> e.size])]

\* the body of the else-if (entry.isFile()) branch
ClassifyFile(e, fullPath, relPath, acc) ==
  IF TooLarge(e.size)
  THEN [acc EXCEPT !.warnings = Append(@, LargeFileWarning(relPath, e.size))]
  ELSE IF IsDist(relPath)
       THEN [acc EXCEPT !.distFiles =
               Append(@, [fullPath |-> fullPath, s3Key |-> DistKey(relPath), size |-> e.size])]
       ELSE [acc EXCEPT !.sourceFiles =
               Append(@, [fullPath |-> fullPath, s3Key |-> SourceKey(relPath), size |-> e.size])]

\* The calls that throw during a walk: readdirSync on the directories of
\* readdir, lstatSync on the entries of lstat.
Failing(rd, ls) == [readdir |-> rd, lstat |-> ls]

\* try { stats = lstatSync(fullPath) } catch { continue }
LstatThrows(bad, e) == e.path \in bad.lstat

RECURSIVE Walk(_, _, _, _)
RECURSIVE WalkEntries(_, _, _, _, _)
RECURSIVE VisitEntry(_, _, _, _)

\* VisitEntry as it would be with statSync and the stats' type tests in place
\* of lstatSync and the Dirent's: a symbolic link counts as what it points to.
VisitEntryFollowingLinks(t, bad, e, acc) ==
  LET fullPath == RootDir \o e.path
      relPath == Relative(RootDir, fullPath)
  IN IF IsNodeModules(Last(e.path)) THEN acc
     ELSE IF LstatThrows(bad, e) THEN acc
     ELSE IF e.kind = "dir" \/ (e.kind = "symlink" /\ e.target = "dir")
          THEN Walk(t, bad, e.path, acc)
     ELSE IF e.kind = "file" \/ (e.kind = "symlink" /\ e.target = "file")
          THEN ClassifyFile(e, fullPath, relPath, acc)
     ELSE acc

\* one iteration of the for loop over the entries of a directory
VisitEntry(t, bad, e, acc) ==
  LET fullPath == RootDir \o e.path
      relPath == Relative(RootDir, fullPath)
  IN IF IsNodeModules(Last(e.path)) THEN acc
     ELSE IF LstatThrows(bad, e) THEN acc
     ELSE IF LstatIsSymbolicLink(e) THEN acc
     ELSE IF DirentIsDirectory(e) THEN Walk(t, bad, e.path, acc)
     ELSE IF DirentIsFile(e) THEN ClassifyFile(e, fullPath, relPath, acc)
     ELSE acc

WalkEntries(t, bad, entries, i, acc) ==
  IF i > Len(entries) THEN acc
  ELSE WalkEntries(t, bad, entries, i + 1, VisitEntry(t, bad, entries[i], acc))

\* walk(dir); `walked` records the directories walk was called on, and `bad`
\* holds the directories readdirSync throws on
Walk(t, bad, dir, acc) ==
  LET acc1 == [acc EXCEPT !.walked = Append(@, dir)]
  IN IF dir \in bad.readdir
     THEN [acc1 EXCEPT !.warnings = Append(@, UnreadableWarning(RootDir \o dir))]
     ELSE WalkEntries(t, bad, Readdir(t, dir), 1, acc1)

collectFiles(t, bad) ==
  Walk(t, bad, <<>>, [sourceFiles |-> <<>>, distFiles |-> <<>>, warnings |-> <<>>, walked |-> <<>>])

(***************************************************************************)
(* The directory tree is laid out entry by entry, in traversal order, and  *)
(* then classified.                                                        *)
(***************************************************************************)
NameIdx(n) == CHOOSE i \in 1..Len(DirOrder) : DirOrder[i] = n

\* p comes before q in a depth-first traversal that lists names in Names order
RECURSIVE Before(_, _)
Before(p, q) ==
  IF p = <<>> THEN q # <<>>
  ELSE IF q = <<>> THEN FALSE
  ELSE IF p[1] = q[1] THEN Before(Tail(p), Tail(q))
  ELSE NameIdx(p[1]) < NameIdx(q[1])

EntryKinds ==
  [kind : {"dir"}, size : {0}, target : {"none"}]
    \cup [kind : {"file"}, size : FileSizes, target : {"none"}]
    \cup [kind : {"symlink"}, size : {0}, target : {"file", "dir"}]

IsContainer(e) == e.kind = "dir"

NoCollected == [sourceFiles |-> <<>>, distFiles |-> <<>>, warnings |-> <<>>, walked |-> <<>>]

\* readdirSync fails on no directory, or on one directory of the tree
UnreadableChoices(t) ==
  {{}} \cup {{d} : d \in {<<>>} \cup {e.path : e \in {x \in t : IsContainer(x)}}}

\* lstatSync fails on no entry, on one entry, or on every entry of one
\* directory (a directory that can be listed but not searched)
UnstattableChoices(t) ==
  {{}} \cup {{e.path} : e \in t}
       \cup {{e.path : e \in {x \in t : Len(x.path) = Len(d) + 1 /\ SubSeq(x.path, 1, Len(d)) = d}} :
               d \in {<<>>} \cup {y.path : y \in {x \in t : IsContainer(x)}}}

\* one walk meets failures of readdirSync or failures of lstatSync
FailureChoices(t) ==
  {Failing(rd, {}) : rd \in UnreadableChoices(t)}
    \cup {Failing({}, ls) : ls \in UnstattableChoices(t)}

NoFile == [fullPath |-> <<>>, s3Key |-> <<>>, size |-> 0]
NoError == "undefined"
NoResult == [success |-> FALSE, error |-> "pending"]
NoSyncResult ==
  [success |-> FALSE, source_uploaded |-> 0, dist_uploaded |-> 0, errors |-> <<>>, warnings |-> <<>>]

IdleRetry ==
  /\ upc = "idle"
  /\ ufile = NoFile
  /\ maxRetries = 0
  /\ attempt = 0
  /\ lastError = NoError
  /\ pendingWait = 0
  /\ outcomes = <<>>
  /\ waits = <<>>
  /\ uresult = NoResult

IdleSync ==
  /\ spc = "idle"
  /\ allFiles = <<>>
  /\ idx = 0
  /\ errors = <<>>
  /\ uploaded = 0
  /\ calls = <<>>
  /\ exhausted = <<>>
  /\ syncResult = NoSyncResult

IdlePoll ==
  /\ ppc = "idle"
  /\ maxAttempts = 0
  /\ pattempt = 0
  /\ statuses = <<>>
  /\ sleeps = 0
  /\ logAnswers = <<>>
  /\ pollValue = <<>>
  /\ dpc = "idle"
  /\ urlRequests = 0
  /\ deployLog = <<>>
  /\ exitCode = -1

NoSummary == [status |-> "none"]

\* package.json: missing, not parsable, or parsed; scripts maps a script name
\* to its command, "absent" when the name is no key of scripts
ScriptNames == {"frontend:build", "build:prod", "build:production", "build"}
NoScripts == [n \in ScriptNames |-> "absent"]
AbsentPackage == [kind |-> "absent", scripts |-> NoScripts]
NoBuildResult == [success |-> FALSE, skipped |-> FALSE, command |-> <<>>, error |-> "pending"]
NoNotifyResult == [success |-> FALSE, error |-> "pending"]

\* const env = requireEnvVars([...]) of qb-deploy-frontend
FrontendRequired ==
  <<"VITE_API_BASE_URL", "VITE_APP_ID", "URL_SLUG", "CDN_ACCESS_KEY_ID",
    "CDN_SECRET_ACCESS_KEY", "CDN_BUCKET_NAME">>

\* the names of process.env the model follows
EnvNames == {FrontendRequired[i] : i \in DOMAIN FrontendRequired} \cup {"CDN_REGION"}

NoEnvResult == <<>>

IdleEnv ==
  /\ processEnv = [n \in EnvNames |-> "unset"]
  /\ envResult = NoEnvResult

\* createArchive: const archiveName = "deploy-frontend.tar.gz"
ArchiveName == "deploy-frontend.tar.gz"
NoArchiveResult == [success |-> FALSE, archivePath |-> "null", error |-> "pending"]
NoUploadResult == [success |-> FALSE, error |-> "pending"]

IdleArchive ==
  /\ apc = "idle"
  /\ includeSource = FALSE
  /\ distDirs = {}
  /\ archiveOnDisk = FALSE
  /\ archivePath = "null"
  /\ archiveBuildResult = NoBuildResult
  /\ archiveResult = NoArchiveResult
  /\ tarArgs = <<>>
  /\ uploadResult = NoUploadResult
  /\ cleanup = "none"
  /\ aexit = -1

\* a value of CONFIG.cron or CONFIG.communication_templates
Undefined == [kind |-> "undefined", items |-> <<>>]
ArrayOf(items) == [kind |-> "array", items |-> items]

IdleCron ==
  /\ kpc = "idle"
  /\ config = [cron |-> Undefined, communication_templates |-> Undefined]
  /\ requests = <<>>
  /\ hasFailure = FALSE
  /\ cronError = "none"
  /\ templatesError = "none"
  /\ kexit = -1

IdleRest == IdleEnv /\ IdleArchive /\ IdleCron

IdleFront ==
  /\ fpc = "idle"
  /\ pkg = AbsentPackage
  /\ lockfiles = {}
  /\ buildResult = NoBuildResult
  /\ buildCommand = <<>>
  /\ notifications = <<>>
  /\ notifyResult = NoNotifyResult
  /\ fexit = -1

IdleMigrate ==
  /\ mpc = "idle"
  /\ databaseUrl = ""
  /\ disk = {}
  /\ table = {}
  /\ tableAtStart = {}
  /\ sqlFiles = <<>>
  /\ appliedMigrations = <<>>
  /\ pendingMigrations = <<>>
  /\ mi = 0
  /\ running = {}
  /\ started = <<>>
  /\ closed = <<>>
  /\ appliedThisRun = <<>>
  /\ selects = 0
  /\ inserts = <<>>
  /\ pulls = 0
  /\ summary = NoSummary
  /\ mexit = -1

IdleCollect ==
  /\ tree = {}
  /\ unreadable = {}
  /\ unstattable = {}
  /\ cpc = "idle"
  /\ collected = NoCollected

InitCollect ==
  /\ IdleRest
  /\ tree = {}
  /\ unreadable = {}
  /\ unstattable = {}
  /\ cpc = "setup"
  /\ collected = NoCollected
  /\ IdleRetry
  /\ IdleSync
  /\ IdlePoll
  /\ IdleMigrate
  /\ IdleFront

AddEntry ==
  /\ cpc = "setup"
  /\ Cardinality(tree) < MaxNodes
  /\ \E parent \in {<<>>} \cup {e.path : e \in {x \in tree : IsContainer(x)}} :
       \E i \in 1..Len(Names) : \E k \in EntryKinds :
         LET path == Join(parent, Names[i])
         IN /\ Len(path) <= MaxDepth
            /\ \A e \in tree : Before(e.path, path)
            /\ tree' = tree \cup {[path |-> path, kind |-> k.kind, size |-> k.size, target |-> k.target]}
  /\ UNCHANGED <<unreadable, unstattable, cpc, collected>>

Collect ==
  /\ cpc = "setup"
  /\ \E bad \in FailureChoices(tree) :
       /\ unreadable' = bad.readdir
       /\ unstattable' = bad.lstat
       /\ collected' = collectFiles(tree, bad)
  /\ cpc' = "done"
  /\ UNCHANGED tree

NextCollect ==
  \/ AddEntry /\ UNCHANGED outsideCollect
  \/ Collect /\ UNCHANGED outsideCollect

SpecCollect == InitCollect /\ [][NextCollect]_vars

(***************************************************************************)
(* uploadFileWithRetry                                                     *)
(***************************************************************************)
DEFAULT_MAX_RETRIES == 3
BACKOFF_BASE_MS == 1000

\* What one pass through the try block can end in: the file was read and the
\* PutObject was acknowledged, or readFileSync or s3Client.send threw. An
\* error is modelled by its message, which may be empty. The message of
\* readFileSync carries the absolute path of the file, here of a project kept
\* below a directory named dist.
ReadError == "EACCES: permission denied, open '/srv/dist/app/a'"

UploadErrors == {"AccessDenied", "SlowDown", "", ReadError}
UploadOutcomes == {"ok"} \cup UploadErrors

RECURSIVE Pow2(_)
Pow2(n) == IF n = 0 THEN 1 ELSE 2 * Pow2(n - 1)

WaitTimeLinear(a) == (a + 1) * BACKOFF_BASE_MS

\* Math.pow(2, attempt) * 1000
WaitTime(a) == Pow2(a) * BACKOFF_BASE_MS

MayRetryAlways(a, limit) == TRUE

\* attempt < maxRetries - 1
MayRetry(a, limit) == a < limit - 1

\* attempt < maxRetries
LoopTest(a, limit) == a < limit

\* lastError?.message || "Upload failed after all retries"
FailureDetail(err) ==
  IF err = NoError \/ err = "" THEN "Upload failed after all retries" ELSE err

CaughtErrorFirstKept(prev, err) == IF prev = NoError THEN err ELSE prev

\* lastError = err
CaughtError(prev, err) == err

\* uploadFileWithRetry(s3Client, file, maxRetries) is entered
EnterRetry(file, limit) ==
  /\ upc' = "try"
  /\ ufile' = file
  /\ maxRetries' = limit
  /\ attempt' = 0
  /\ lastError' = NoError
  /\ pendingWait' = 0
  /\ outcomes' = <<>>
  /\ waits' = <<>>
  /\ uresult' = NoResult

\* One pass through the body of the for loop up to its first await that
\* completes: the try block and, when it throws, the catch block.
RetryAttempt ==
  /\ upc = "try"
  /\ LoopTest(attempt, maxRetries)
  /\ \E o \in UploadOutcomes :
       /\ outcomes' = Append(outcomes, o)
       /\ IF o = "ok"
          THEN /\ uresult' = [success |-> TRUE, error |-> NoError]
               /\ upc' = "done"
               /\ UNCHANGED <<attempt, lastError, pendingWait>>
          ELSE /\ lastError' = CaughtError(lastError, o)
               /\ IF MayRetry(attempt, maxRetries)
                  THEN /\ pendingWait' = WaitTime(attempt)
                       /\ upc' = "wait"
                       /\ UNCHANGED attempt
                  ELSE /\ attempt' = attempt + 1
                       /\ upc' = "try"
                       /\ UNCHANGED pendingWait
               /\ UNCHANGED uresult
  /\ UNCHANGED <<ufile, maxRetries, waits, exhausted>>

\* The setTimeout of the backoff fires and the loop goes round.
RetryBackoff ==
  /\ upc = "wait"
  /\ waits' = Append(waits, pendingWait)
  /\ pendingWait' = 0
  /\ attempt' = attempt + 1
  /\ upc' = "try"
  /\ UNCHANGED <<ufile, maxRetries, lastError, outcomes, uresult, exhausted>>

\* The loop test fails: return { success: false, error }.
RetryGiveUp ==
  /\ upc = "try"
  /\ ~LoopTest(attempt, maxRetries)
  /\ uresult' = [success |-> FALSE, error |-> FailureDetail(lastError)]
  /\ upc' = "done"
  /\ exhausted' = Append(exhausted, ufile)
  /\ UNCHANGED <<ufile, maxRetries, attempt, lastError, pendingWait, outcomes, waits>>

SampleFile ==
  [fullPath |-> RootDir \o <<"a">>, s3Key |-> SourceKey(<<"a">>), size |-> MAX_FILE_SIZE]

\* uploadFileWithRetry called on its own, with any attempt limit
InitRetry ==
  /\ IdleRest
  /\ IdleCollect
  /\ IdlePoll
  /\ IdleMigrate
  /\ IdleFront
  /\ spc = "idle" /\ allFiles = <<>> /\ idx = 0 /\ errors = <<>> /\ uploaded = 0
  /\ calls = <<>> /\ exhausted = <<>> /\ syncResult = NoSyncResult
  /\ upc = "try"
  /\ ufile = SampleFile
  /\ maxRetries \in 1..MaxRetryLimit
  /\ attempt = 0
  /\ lastError = NoError
  /\ pendingWait = 0
  /\ outcomes = <<>>
  /\ waits = <<>>
  /\ uresult = NoResult

NextRetry ==
  \/ RetryAttempt /\ UNCHANGED outsideRetry
  \/ RetryBackoff /\ UNCHANGED outsideRetry
  \/ RetryGiveUp /\ UNCHANGED outsideRetry

SpecRetry == InitRetry /\ [][NextRetry]_vars

(***************************************************************************)
(* syncToS3                                                                *)
(***************************************************************************)
Dir(path) == [path |-> path, kind |-> "dir", size |-> 0, target |-> "none"]
File(path, size) == [path |-> path, kind |-> "file", size |-> size, target |-> "none"]

\* The project trees syncToS3 is run on.
SyncTrees ==
  { {},
    {File(<<"a">>, MAX_FILE_SIZE)},
    {File(<<"a">>, MAX_FILE_SIZE), Dir(<<"dist">>), File(<<"dist", "a">>, MAX_FILE_SIZE)},
    {File(<<"a">>, MAX_FILE_SIZE + 1), Dir(<<"dist">>), File(<<"dist", "a">>, MAX_FILE_SIZE),
     File(<<"dist", "dist">>, MAX_FILE_SIZE), File(<<"source">>, MAX_FILE_SIZE)},
    {Dir(<<"dist">>), Dir(<<"dist", "source">>), File(<<"dist", "source", "a">>, MAX_FILE_SIZE),
     Dir(<<"source">>), File(<<"source", "a">>, MAX_FILE_SIZE)} }

\* `Failed to upload ${file.s3Key}: ${result.error}`
UploadErrorEntry(file, result) == <<"Failed to upload", file.s3Key, result.error>>

\* the names that stand between two slashes in an error detail
SlashSegments(detail) == IF detail = ReadError THEN {"srv", "dist", "app"} ELSE {}

\* e.includes("/<seg>/") for an entry of the error list: the test is on the
\* whole text, the key and the error detail after it
EntryIncludes(e, seg) ==
  \/ \E k \in 2..(Len(e[2]) - 1) : e[2][k] = seg
  \/ seg \in SlashSegments(e[3])

CountIncluding(errs, seg) == Cardinality({i \in DOMAIN errs : EntryIncludes(errs[i], seg)})

TaskListDistFirst(files) == files.distFiles \o files.sourceFiles

\* const allFiles = [...sourceFiles, ...distFiles]
TaskList(files) == files.sourceFiles \o files.distFiles

InitSync ==
  /\ IdleRest
  /\ tree \in SyncTrees
  /\ unreadable = {}
  /\ unstattable = {}
  /\ cpc = "setup"
  /\ collected = NoCollected
  /\ IdleRetry
  /\ IdlePoll
  /\ IdleMigrate
  /\ IdleFront
  /\ spc = "start"
  /\ allFiles = <<>>
  /\ idx = 0
  /\ errors = <<>>
  /\ uploaded = 0
  /\ calls = <<>>
  /\ exhausted = <<>>
  /\ syncResult = NoSyncResult

\* syncToS3 up to the upload loop: collectFiles(ROOT_DIR) and the task list
SyncStart ==
  /\ spc = "start"
  /\ collected' = collectFiles(tree, Failing(unreadable, unstattable))
  /\ cpc' = "done"
  /\ allFiles' = TaskList(collected')
  /\ errors' = <<>>
  /\ uploaded' = 0
  /\ idx' = 1
  /\ spc' = "loop"
  /\ UNCHANGED <<tree, unreadable, unstattable, retryVars, calls, exhausted, syncResult>>

\* for (const file of allFiles): await uploadFileWithRetry(s3Client, file)
SyncUploadNext ==
  /\ spc = "loop"
  /\ idx <= Len(allFiles)
  /\ EnterRetry(allFiles[idx], DEFAULT_MAX_RETRIES)
  /\ calls' = Append(calls, allFiles[idx])
  /\ spc' = "awaiting"
  /\ UNCHANGED <<collectVars, allFiles, idx, errors, uploaded, exhausted, syncResult>>

SyncHandleResultAborting ==
  /\ spc = "awaiting"
  /\ upc = "done"
  /\ IF uresult.success
     THEN uploaded' = uploaded + 1 /\ errors' = errors /\ idx' = idx + 1
     ELSE /\ errors' = Append(errors, UploadErrorEntry(allFiles[idx], uresult))
          /\ uploaded' = uploaded
          /\ idx' = Len(allFiles) + 1
  /\ upc' = "idle"
  /\ spc' = "loop"
  /\ UNCHANGED <<collectVars, ufile, maxRetries, attempt, lastError, pendingWait, outcomes,
                 waits, uresult, allFiles, calls, exhausted, syncResult>>

\* the rest of the loop body, after uploadFileWithRetry returned
SyncHandleResult ==
  /\ spc = "awaiting"
  /\ upc = "done"
  /\ IF uresult.success
     THEN uploaded' = uploaded + 1 /\ errors' = errors
     ELSE /\ errors' = Append(errors, UploadErrorEntry(allFiles[idx], uresult))
          /\ uploaded' = uploaded
  /\ idx' = idx + 1
  /\ upc' = "idle"
  /\ spc' = "loop"
  /\ UNCHANGED <<collectVars, ufile, maxRetries, attempt, lastError, pendingWait, outcomes,
                 waits, uresult, allFiles, calls, exhausted, syncResult>>

\* after the loop: the result object
SyncFinish ==
  /\ spc = "loop"
  /\ idx > Len(allFiles)
  /\ syncResult' =
       [success |-> Len(errors) = 0,
        source_uploaded |-> Len(collected.sourceFiles) - CountIncluding(errors, "source"),
        dist_uploaded |-> Len(collected.distFiles) - CountIncluding(errors, "dist"),
        errors |-> errors,
        warnings |-> collected.warnings]
  /\ spc' = "done"
  /\ UNCHANGED <<collectVars, retryVars, allFiles, idx, errors, uploaded, calls, exhausted>>

NextSync ==
  \/ SyncStart /\ UNCHANGED outsideSync
  \/ SyncUploadNext /\ UNCHANGED outsideSync
  \/ RetryAttempt /\ spc = "awaiting" /\ UNCHANGED outsideRetry
  \/ RetryBackoff /\ spc = "awaiting" /\ UNCHANGED outsideRetry
  \/ RetryGiveUp /\ spc = "awaiting" /\ UNCHANGED outsideRetry
  \/ SyncHandleResult /\ UNCHANGED outsideSync
  \/ SyncFinish /\ UNCHANGED outsideSync

SpecSync == InitSync /\ [][NextSync]_vars

(***************************************************************************)
(* qb-deploy-frontend: buildFrontend, notifyCompletion and deploy          *)
(***************************************************************************)
\* const buildScriptPriority = ["frontend:build", "build:prod", "build:production"]
BuildScriptPriority == <<"frontend:build", "build:prod", "build:production">>

\* if (scripts[name]): the name is a key of scripts and its value is not ""
HasScript(scripts, name) == scripts[name] \notin {"absent", ""}

FindBuildScriptLast(scripts) ==
  LET hits == {i \in DOMAIN BuildScriptPriority : HasScript(scripts, BuildScriptPriority[i])}
  IN IF hits = {} THEN "null"
     ELSE BuildScriptPriority[CHOOSE i \in hits : \A j \in hits : i >= j]

\* the first name of the priority list that scripts has, "null" when none
FindBuildScript(scripts) ==
  LET hits == {i \in DOMAIN BuildScriptPriority : HasScript(scripts, BuildScriptPriority[i])}
  IN IF hits = {} THEN "null"
     ELSE BuildScriptPriority[CHOOSE i \in hits : \A j \in hits : i <= j]

\* pnpm unless pnpm-lock.yaml is missing and package-lock.json or yarn.lock is there
DetectPackageManager(locks) ==
  IF "pnpm-lock.yaml" \in locks THEN "pnpm"
  ELSE IF "package-lock.json" \in locks THEN "npm"
  ELSE IF "yarn.lock" \in locks THEN "yarn"
  ELSE "pnpm"

\* `${pm} run ${buildScript}`
BuildCommand(pm, script) == <<pm, "run", script>>

\* how the spawned build ends: close with code 0, close with another code,
\* an 'error' event, or spawn itself throwing (execve refused, E2BIG)
ChildOutcomes == {"exit0", "exit1", "spawnError", "spawnThrows"}

\* const command = `${pm} run ${buildScript}`, <<>> when buildFrontend returns
\* or throws before it
SpawnedCommand(p, locks) ==
  IF p.kind = "json" /\ FindBuildScript(p.scripts) # "null"
  THEN BuildCommand(DetectPackageManager(locks), FindBuildScript(p.scripts))
  ELSE <<>>

\* buildFrontend throws instead of returning: packageJson.scripts of a
\* package.json that holds null (the read is outside the try), or spawn
\* throwing inside the promise executor. The catch of deploy then prints
\* "Deployment failed" and calls process.exit(1).
buildFrontendThrows(p, locks, child) ==
  \/ p.kind = "null"
  \/ SpawnedCommand(p, locks) # <<>> /\ child = "spawnThrows"

BuildSkipped == [success |-> TRUE, skipped |-> TRUE, command |-> <<>>, error |-> "undefined"]

buildFrontend(p, locks, child) ==
  IF p.kind = "absent" THEN BuildSkipped
  ELSE IF p.kind = "unparsable"
  THEN [success |-> FALSE, skipped |-> FALSE, command |-> <<>>,
        error |-> "Failed to read package.json"]
  ELSE LET script == FindBuildScript(p.scripts)
           command == BuildCommand(DetectPackageManager(locks), script)
       IN IF script = "null" THEN BuildSkipped
          ELSE IF child = "exit0"
          THEN [success |-> TRUE, skipped |-> FALSE, command |-> command, error |-> "undefined"]
          ELSE IF child = "exit1"
          THEN [success |-> FALSE, skipped |-> FALSE, command |-> command,
                error |-> "Build failed with exit code 1"]
          ELSE [success |-> FALSE, skipped |-> FALSE, command |-> command, error |-> "spawn error"]

ParsedPackage(scripts) == [kind |-> "json", scripts |-> scripts]

\* a package.json that holds the JSON value null
NullPackage == [kind |-> "null", scripts |-> NoScripts]

\* The projects qb-deploy-frontend is run on.
FrontendPackages ==
  {AbsentPackage,
   [kind |-> "unparsable", scripts |-> NoScripts],
   NullPackage,
   ParsedPackage(NoScripts),
   ParsedPackage([NoScripts EXCEPT !["build"] = "vite build"]),
   ParsedPackage([NoScripts EXCEPT !["build:prod"] = "vite build", !["frontend:build"] = ""])}

\* What ROOT_DIR holds besides the package files.
FrontendTrees ==
  { {},
    {File(<<"a">>, MAX_FILE_SIZE)},
    {File(<<"a">>, MAX_FILE_SIZE), Dir(<<"dist">>), File(<<"dist", "a">>, MAX_FILE_SIZE)} }

\* package.json and the lock files are entries of ROOT_DIR: what existsSync
\* and readFileSync of buildFrontend see is what collectFiles walks.
PackageFiles(p, locks) ==
  (IF p.kind = "absent" THEN {} ELSE {File(<<"package.json">>, MAX_FILE_SIZE)})
    \cup {File(<<l>>, MAX_FILE_SIZE) : l \in locks}

InitFrontend ==
  /\ IdleRest
  /\ pkg \in FrontendPackages
  /\ lockfiles \in {{}, {"package-lock.json", "yarn.lock"}}
  /\ \E rest \in FrontendTrees : tree = rest \cup PackageFiles(pkg, lockfiles)
  /\ unreadable = {}
  /\ unstattable = {}
  /\ cpc = "setup"
  /\ collected = NoCollected
  /\ IdleRetry
  /\ IdleSync
  /\ IdlePoll
  /\ IdleMigrate
  /\ fpc = "build"
  /\ buildResult = NoBuildResult
  /\ buildCommand = <<>>
  /\ notifications = <<>>
  /\ notifyResult = NoNotifyResult
  /\ fexit = -1

\* !buildResult.success is false: deploy goes on to the sync
MaySync(result) == result.success

MayNotifyAlways(result) == TRUE

\* !syncResult.success is false: deploy goes on to the notification
MayNotify(result) == result.success

\* Step 1 of deploy: buildFrontend, the exit when it failed, and the catch of
\* deploy when it threw (buildResult is then never assigned)
FrontBuild ==
  /\ fpc = "build"
  /\ buildCommand' = SpawnedCommand(pkg, lockfiles)
  /\ \E child \in ChildOutcomes :
       IF buildFrontendThrows(pkg, lockfiles, child)
       THEN /\ buildResult' = buildResult
            /\ fpc' = "exited" /\ spc' = spc /\ fexit' = 1
       ELSE /\ buildResult' = buildFrontend(pkg, lockfiles, child)
            /\ IF MaySync(buildResult')
               THEN fpc' = "sync" /\ spc' = "start" /\ fexit' = fexit
               ELSE fpc' = "exited" /\ spc' = spc /\ fexit' = 1
  /\ UNCHANGED <<pkg, lockfiles, notifications, notifyResult>>
  /\ UNCHANGED <<allFiles, idx, errors, uploaded, calls, exhausted, syncResult>>

\* Step 2 of deploy after syncToS3 returned: the exit when it failed
FrontSyncReturned ==
  /\ fpc = "sync"
  /\ spc = "done"
  /\ IF MayNotify(syncResult)
     THEN fpc' = "notify" /\ fexit' = fexit
     ELSE fpc' = "exited" /\ fexit' = 1
  /\ UNCHANGED <<pkg, lockfiles, buildResult, buildCommand, notifications, notifyResult>>
  /\ UNCHANGED <<spc, allFiles, idx, errors, uploaded, calls, exhausted, syncResult>>

\* what the platform answers to notify-frontend-deployed
NotifyAnswers == {"ok", "status 500", "fetch failed"}

\* Step 3 of deploy: notifyCompletion, the summary, and the end of the process.
\* checkFirstTimeBuild lists the prefix the files were just uploaded to.
FrontNotify ==
  /\ fpc = "notify"
  /\ \E listOk \in BOOLEAN : \E prior \in BOOLEAN : \E answer \in NotifyAnswers :
       LET firstTimeBuild == listOk /\ ~prior /\ uploaded = 0
       IN /\ notifications' =
               Append(notifications, [status |-> "SUCCESS", first_time_build |-> firstTimeBuild])
          /\ notifyResult' =
               IF answer = "ok" THEN [success |-> TRUE, error |-> "undefined"]
               ELSE [success |-> FALSE, error |-> answer]
  /\ fpc' = "exited"
  /\ fexit' = 0
  /\ UNCHANGED <<pkg, lockfiles, buildResult, buildCommand>>
  /\ UNCHANGED <<spc, allFiles, idx, errors, uploaded, calls, exhausted, syncResult>>

NextFrontend ==
  \/ FrontBuild /\ UNCHANGED outsideFront
  \/ SyncStart /\ UNCHANGED outsideSync
  \/ SyncUploadNext /\ UNCHANGED outsideSync
  \/ RetryAttempt /\ spc = "awaiting" /\ UNCHANGED outsideRetry
  \/ RetryBackoff /\ spc = "awaiting" /\ UNCHANGED outsideRetry
  \/ RetryGiveUp /\ spc = "awaiting" /\ UNCHANGED outsideRetry
  \/ SyncHandleResult /\ UNCHANGED outsideSync
  \/ SyncFinish /\ UNCHANGED outsideSync
  \/ FrontSyncReturned /\ UNCHANGED outsideFront
  \/ FrontNotify /\ UNCHANGED outsideFront

SpecFrontend == InitFrontend /\ [][NextFrontend]_vars

\* buildFrontend on every package.json and every set of lock files
LockFiles == {"pnpm-lock.yaml", "package-lock.json", "yarn.lock"}

AllPackages ==
  {AbsentPackage, [kind |-> "unparsable", scripts |-> NoScripts], NullPackage}
    \cup {ParsedPackage(s) : s \in [ScriptNames -> {"absent", "", "vite build"}]}

InitBuild ==
  /\ IdleRest
  /\ IdleCollect
  /\ IdleRetry
  /\ IdleSync
  /\ IdlePoll
  /\ IdleMigrate
  /\ fpc = "build"
  /\ pkg \in AllPackages
  /\ lockfiles \in SUBSET LockFiles
  /\ buildResult = NoBuildResult
  /\ buildCommand = <<>>
  /\ notifications = <<>>
  /\ notifyResult = NoNotifyResult
  /\ fexit = -1

NextBuild == FrontBuild /\ UNCHANGED outsideFront

SpecBuild == InitBuild /\ [][NextBuild]_vars

(***************************************************************************)
(* requireEnvVars, at the start of qb-deploy-frontend                      *)
(***************************************************************************)
IsMissingWhenUnset(value) == value = "unset"

\* !value: the name is not set, or set to the empty string
IsMissing(value) == value \in {"unset", ""}

\* the names pushed to missing, in the order of varNames
MissingVars(varNames, penv) ==
  LET Bad(n) == IsMissing(penv[n])
  IN SelectSeq(varNames, Bad)

\* result: every name of varNames that is not missing, with its value
EnvResult(varNames, penv) ==
  [n \in {varNames[i] : i \in {j \in DOMAIN varNames : ~IsMissing(penv[varNames[j]])}} |-> penv[n]]

EnvValues == {"unset", "", "value"}

InitEnv ==
  /\ IdleArchive
  /\ IdleCron
  /\ IdleCollect
  /\ IdleRetry
  /\ IdleSync
  /\ IdlePoll
  /\ IdleMigrate
  /\ fpc = "env"
  /\ pkg = AbsentPackage
  /\ lockfiles = {}
  /\ buildResult = NoBuildResult
  /\ buildCommand = <<>>
  /\ notifications = <<>>
  /\ notifyResult = NoNotifyResult
  /\ fexit = -1
  /\ processEnv \in [EnvNames -> EnvValues]
  /\ envResult = NoEnvResult

\* const env = requireEnvVars([...]); deploy() starts when it returns
FrontRequireEnv ==
  /\ fpc = "env"
  /\ IF Len(MissingVars(FrontendRequired, processEnv)) > 0
     THEN /\ fexit' = 1
          /\ fpc' = "exited"
          /\ envResult' = envResult
     ELSE /\ envResult' = EnvResult(FrontendRequired, processEnv)
          /\ fpc' = "build"
          /\ fexit' = fexit
  /\ UNCHANGED <<processEnv, pkg, lockfiles, buildResult, buildCommand, notifications,
                 notifyResult>>

NextEnv ==
  \/ FrontRequireEnv /\ UNCHANGED outsideEnv
  \/ FrontBuild /\ UNCHANGED outsideFront

SpecEnv == InitEnv /\ [][NextEnv]_vars

(***************************************************************************)
(* waitForDeployment, and the part of deploy that follows it               *)
(***************************************************************************)
\* deployment.status as the provider answers it
NonTerminalStatuses == {"pending"}
DeploymentStatuses == NonTerminalStatuses \cup {"success", "failed", "error"}

\* makeDenoRequest throws on a response that is not ok
HttpError == "API request failed (500)"

\* what a status fetch ends in: a deployment with a status, or the throw
FetchAnswers == DeploymentStatuses \cup {HttpError}

\* what the build log fetch ends in
BuildLogs == {"log: build error", "log: boot error"}
LogAnswers == BuildLogs \cup {HttpError}

FailedMessageWithoutLogs(logs) == <<"Deployment failed">>

\* `Deployment failed: ${JSON.stringify(logs)}`
FailedMessage(logs) == <<"Deployment failed: ", logs>>

ErrorMessage == <<"Deployment failed">>

TimeoutMessage == <<"Deployment timeout - please check manually">>

HttpErrorMessage == <<HttpError>>

IsSuccessMisspelt(st) == st = "succeeded"

\* deployment.status === "success"
IsSuccess(st) == st = "success"

\* deployment.status === "failed"
IsFailed(st) == st = "failed"

IsErrorUnhandled(st) == FALSE

\* deployment.status === "error"
IsError(st) == st = "error"

PollLoopTestExclusive(a, limit) == a < limit

\* attempt <= maxAttempts
PollLoopTest(a, limit) == a <= limit

ResponseOkAlways(r) == TRUE

\* makeDenoRequest: response.ok, else it throws "API request failed (...)"
ResponseOk(r) == r # HttpError

\* qb-deploy-server at the call of waitForDeployment
InitPoll ==
  /\ IdleRest
  /\ IdleCollect
  /\ IdleRetry
  /\ IdleSync
  /\ IdleMigrate
  /\ IdleFront
  /\ ppc = "fetch"
  /\ maxAttempts \in 0..MaxPollAttempts
  /\ pattempt = 1
  /\ statuses = <<>>
  /\ sleeps = 0
  /\ logAnswers = <<>>
  /\ pollValue = <<>>
  /\ dpc = "polling"
  /\ urlRequests = 0
  /\ deployLog = <<>>
  /\ exitCode = -1

\* one status fetch and the tests on its answer
PollFetch ==
  /\ ppc = "fetch"
  /\ PollLoopTest(pattempt, maxAttempts)
  /\ \E r \in FetchAnswers :
       /\ statuses' = Append(statuses, r)
       /\ IF ~ResponseOk(r)
          THEN ppc' = "thrown" /\ pollValue' = HttpErrorMessage
          ELSE IF IsSuccess(r)
          THEN ppc' = "returned" /\ pollValue' = <<r>>
          ELSE IF IsFailed(r)
          THEN ppc' = "logs" /\ pollValue' = pollValue
          ELSE IF IsError(r)
          THEN ppc' = "thrown" /\ pollValue' = ErrorMessage
          ELSE ppc' = "sleep" /\ pollValue' = pollValue
  /\ UNCHANGED <<maxAttempts, pattempt, sleeps, logAnswers, deployVars>>

\* the build log fetch of the "failed" branch, and its throw
PollFetchLogs ==
  /\ ppc = "logs"
  /\ \E r \in LogAnswers :
       /\ logAnswers' = Append(logAnswers, r)
       /\ pollValue' = IF ~ResponseOk(r) THEN HttpErrorMessage ELSE FailedMessage(r)
  /\ ppc' = "thrown"
  /\ UNCHANGED <<maxAttempts, pattempt, statuses, sleeps, deployVars>>

\* the setTimeout of waitInterval fires and the loop goes round
PollSleep ==
  /\ ppc = "sleep"
  /\ sleeps' = sleeps + 1
  /\ pattempt' = pattempt + 1
  /\ ppc' = "fetch"
  /\ UNCHANGED <<maxAttempts, statuses, logAnswers, pollValue, deployVars>>

\* the loop test fails: throw the timeout Error
PollTimeout ==
  /\ ppc = "fetch"
  /\ ~PollLoopTest(pattempt, maxAttempts)
  /\ pollValue' = TimeoutMessage
  /\ ppc' = "thrown"
  /\ UNCHANGED <<maxAttempts, pattempt, statuses, sleeps, logAnswers, deployVars>>

DeployRegisterUrlAnyway ==
  /\ dpc = "polling"
  /\ ppc \in {"returned", "thrown"}
  /\ urlRequests' = urlRequests + 1
  /\ exitCode' = IF ppc = "returned" THEN 0 ELSE 1
  /\ deployLog' = deployLog
  /\ dpc' = "exited"
  /\ UNCHANGED pollVars

\* deploy after waitForDeployment returned: POST set-server-url
DeployRegisterUrl ==
  /\ dpc = "polling"
  /\ ppc = "returned"
  /\ urlRequests' = urlRequests + 1
  /\ \E ok \in BOOLEAN :
       IF ok
       THEN exitCode' = 0 /\ deployLog' = deployLog
       ELSE /\ exitCode' = 1
            /\ deployLog' = <<"Deployment Status Unknown", <<"Failed to set server URL">>>>
  /\ dpc' = "exited"
  /\ UNCHANGED pollVars

DeployCatchExitingZero ==
  /\ dpc = "polling"
  /\ ppc = "thrown"
  /\ deployLog' = deployLog
  /\ exitCode' = 0
  /\ dpc' = "exited"
  /\ UNCHANGED <<urlRequests, pollVars>>

\* the catch of deploy: print the message of the Error and exit with 1
DeployCatch ==
  /\ dpc = "polling"
  /\ ppc = "thrown"
  /\ deployLog' = <<"Deployment Status Unknown", pollValue>>
  /\ exitCode' = 1
  /\ dpc' = "exited"
  /\ UNCHANGED <<urlRequests, pollVars>>

\* qb-deploy-server at the start of deploy
InitServer ==
  /\ IdleRest
  /\ IdleCollect
  /\ IdleRetry
  /\ IdleSync
  /\ IdleMigrate
  /\ IdleFront
  /\ ppc = "idle"
  /\ maxAttempts \in 0..MaxPollAttempts
  /\ pattempt = 0
  /\ statuses = <<>>
  /\ sleeps = 0
  /\ logAnswers = <<>>
  /\ pollValue = <<>>
  /\ dpc = "project"
  /\ urlRequests = 0
  /\ deployLog = <<>>
  /\ exitCode = -1

\* a step of deploy threw: the catch prints the message and exits with 1
DeployThrow(message) ==
  /\ deployLog' = <<"Deployment Status Unknown", <<message>>>>
  /\ exitCode' = 1
  /\ dpc' = "exited"

\* Step 1: createProject rethrows a response that is not ok, or a failed fetch
DeployCreateProject ==
  /\ dpc = "project"
  /\ \E r \in {"ok", HttpError, "fetch failed"} :
       IF r = "ok"
       THEN dpc' = "assets" /\ UNCHANGED <<deployLog, exitCode>>
       ELSE DeployThrow(r)
  /\ UNCHANGED <<urlRequests, pollVars>>

\* Step 2: prepareDeploymentAssets rethrows a missing backend or backend/src
\* directory and whatever reading the files throws
DeployPrepareAssets ==
  /\ dpc = "assets"
  /\ \E r \in {"ok", "Backend directory not found", "Backend src directory not found",
                "EACCES"} :
       IF r = "ok"
       THEN dpc' = "create" /\ UNCHANGED <<deployLog, exitCode>>
       ELSE DeployThrow(r)
  /\ UNCHANGED <<urlRequests, pollVars>>

\* Step 3: createDeployment exits with 1 when DATABASE_URL or APP_JWT_SECRET
\* is missing and rethrows a failed request; step 4 then enters
\* waitForDeployment
DeployCreateDeployment ==
  /\ dpc = "create"
  /\ \E r \in {"ok", "missing env", HttpError} :
       IF r = "ok"
       THEN /\ dpc' = "polling"
            /\ ppc' = "fetch"
            /\ pattempt' = 1
            /\ UNCHANGED <<deployLog, exitCode>>
       ELSE /\ IF r = "missing env"
               THEN exitCode' = 1 /\ dpc' = "exited" /\ deployLog' = deployLog
               ELSE DeployThrow(r)
            /\ UNCHANGED <<ppc, pattempt>>
  /\ UNCHANGED <<urlRequests, maxAttempts, statuses, sleeps, logAnswers, pollValue>>

NextServer ==
  \/ DeployCreateProject /\ UNCHANGED outsideDeploy
  \/ DeployPrepareAssets /\ UNCHANGED outsideDeploy
  \/ DeployCreateDeployment /\ UNCHANGED outsideDeploy
  \/ PollFetch /\ UNCHANGED outsideDeploy
  \/ PollFetchLogs /\ UNCHANGED outsideDeploy
  \/ PollSleep /\ UNCHANGED outsideDeploy
  \/ PollTimeout /\ UNCHANGED outsideDeploy
  \/ DeployRegisterUrl /\ UNCHANGED outsideDeploy
  \/ DeployCatch /\ UNCHANGED outsideDeploy

SpecServer == InitServer /\ [][NextServer]_vars

NextPoll ==
  \/ PollFetch /\ UNCHANGED outsideDeploy
  \/ PollFetchLogs /\ UNCHANGED outsideDeploy
  \/ PollSleep /\ UNCHANGED outsideDeploy
  \/ PollTimeout /\ UNCHANGED outsideDeploy
  \/ DeployRegisterUrl /\ UNCHANGED outsideDeploy
  \/ DeployCatch /\ UNCHANGED outsideDeploy

SpecPoll == InitPoll /\ [][NextPoll]_vars

(***************************************************************************)
(* The three fragments, each called on its own.                            *)
(***************************************************************************)
InitClassify ==
  /\ IdleRest
  /\ tree \in SyncTrees
  /\ unreadable = {}
  /\ unstattable = {}
  /\ cpc = "setup"
  /\ collected = NoCollected
  /\ IdleRetry
  /\ IdleSync
  /\ IdlePoll
  /\ IdleMigrate
  /\ IdleFront

InitFragments == InitRetry \/ InitPoll \/ InitClassify

NextFragments ==
  \/ RetryAttempt /\ UNCHANGED outsideRetry
  \/ RetryBackoff /\ UNCHANGED outsideRetry
  \/ RetryGiveUp /\ UNCHANGED outsideRetry
  \/ PollFetch /\ UNCHANGED outsideDeploy
  \/ PollFetchLogs /\ UNCHANGED outsideDeploy
  \/ PollSleep /\ UNCHANGED outsideDeploy
  \/ PollTimeout /\ UNCHANGED outsideDeploy
  \/ DeployRegisterUrl /\ UNCHANGED outsideDeploy
  \/ DeployCatch /\ UNCHANGED outsideDeploy
  \/ Collect /\ UNCHANGED outsideCollect

SpecFragments == InitFragments /\ [][NextFragments]_vars

(***************************************************************************)
(* qb-db-migrate. A file name is its stem, as a sequence of characters,    *)
(* and its extension: " 1.sql" is [stem |-> <<" ", "1">>, ext |-> "sql"].  *)
(***************************************************************************)
FileName(stem, ext) == [stem |-> stem, ext |-> ext]

\* The names the files of backend/migrations are drawn from.
MigrationFileNames ==
  {FileName(<<"1">>, "sql"), FileName(<<"2">>, "sql"), FileName(<<" ", "1">>, "sql"),
   FileName(<<"1">>, "txt")}

\* f.endsWith(".sql")
EndsWithSql(f) == f.ext = "sql"

\* the UTF-16 code unit of a character
CharCode(c) ==
  CASE c = " " -> 32 [] c = "." -> 46 [] c = "1" -> 49 [] c = "2" -> 50
    [] c = "l" -> 108 [] c = "q" -> 113 [] c = "s" -> 115 [] c = "t" -> 116 [] c = "x" -> 120

ExtChars(ext) == IF ext = "sql" THEN <<"s", "q", "l">> ELSE <<"t", "x", "t">>

NameChars(f) == f.stem \o <<".">> \o ExtChars(f.ext)

\* a < b as Array.prototype.sort compares strings without a comparator
RECURSIVE CharsLess(_, _)
CharsLess(a, b) ==
  IF b = <<>> THEN FALSE
  ELSE IF a = <<>> THEN TRUE
  ELSE IF a[1] = b[1] THEN CharsLess(Tail(a), Tail(b))
  ELSE CharCode(a[1]) < CharCode(b[1])

NameLess(f, g) == CharsLess(NameChars(f), NameChars(g))

RECURSIVE SortDescending(_)
SortDescending(S) ==
  IF S = {} THEN <<>>
  ELSE LET m == CHOOSE f \in S : \A g \in S \ {f} : NameLess(g, f)
       IN <<m>> \o SortDescending(S \ {m})

\* .sort()
RECURSIVE Sort(_)
Sort(S) ==
  IF S = {} THEN <<>>
  ELSE LET m == CHOOSE f \in S : \A g \in S \ {f} : NameLess(f, g)
       IN <<m>> \o Sort(S \ {m})

\* (await readdir(migrationsDir)).filter((f) => f.endsWith(".sql")).sort()
SqlFiles(dir) == Sort({f \in dir : EndsWithSql(f)})

\* The rows of SELECT filename FROM _migrations ORDER BY filename: every
\* filename of the table once, in the order of the database's collation.
RowOrders(t) ==
  {s \in [1..Cardinality(t) -> t] : \A i, j \in 1..Cardinality(t) : s[i] = s[j] => i = j}

RECURSIVE TrimStartChars(_)
TrimStartChars(cs) ==
  IF cs # <<>> /\ cs[1] = " " THEN TrimStartChars(Tail(cs)) ELSE cs

\* What stdout.trim() does to the first line of the output; the names end in
\* their extension, so the last line has no white space to lose.
TrimStart(f) == [f EXCEPT !.stem = TrimStartChars(@)]

\* f.trim() is not empty
NonBlank(f) == \E i \in DOMAIN NameChars(f) : NameChars(f)[i] # " "

\* result ? result.split("\n").filter((f) => f.trim()) : [] on the trimmed
\* output of psql -t -A, which prints one filename a line
ParseApplied(rows) ==
  IF rows = <<>> THEN <<>>
  ELSE SelectSeq([i \in 1..Len(rows) |-> IF i = 1 THEN TrimStart(rows[1]) ELSE rows[i]], NonBlank)

\* appliedMigrations.includes(f)
Includes(s, f) == \E i \in DOMAIN s : s[i] = f

\* sqlFiles.filter((f) => !appliedMigrations.includes(f))
Pending(files, applied) ==
  LET NotApplied(f) == ~Includes(applied, f)
  IN SelectSeq(files, NotApplied)

UpToDateSummary(applied) ==
  [status |-> "up_to_date", migrations_applied |-> 0, files_applied |-> <<>>,
   already_applied |-> applied]

FailedSummary(appliedRun, f) ==
  [status |-> "failed", migrations_applied |-> Len(appliedRun), files_applied |-> appliedRun,
   failed_file |-> f]

SuccessSummaryUnlessPullFailed(appliedRun, applied, synced) ==
  [status |-> IF synced THEN "success" ELSE "failed", migrations_applied |-> Len(appliedRun),
   files_applied |-> appliedRun, already_applied |-> applied, schema_synced |-> synced]

SuccessSummary(appliedRun, applied, synced) ==
  [status |-> "success", migrations_applied |-> Len(appliedRun), files_applied |-> appliedRun,
   already_applied |-> applied, schema_synced |-> synced]

\* What the INSERT of recordMigration ends in: filename is UNIQUE, and psql
\* may fail for another reason whatever the table holds.
InsertOutcomes(t, f) == IF f \in t THEN {"unique_violation", "error"} ELSE {"ok", "error"}

\* the table after INSERT INTO _migrations (filename) VALUES (f)
TableAfterInsert(t, f) == t \cup {f}

InitMigrate ==
  /\ IdleRest
  /\ IdleCollect
  /\ IdleRetry
  /\ IdleSync
  /\ IdlePoll
  /\ IdleFront
  /\ mpc = "start"
  /\ databaseUrl \in {"", "postgres://db"}
  /\ disk \in SUBSET MigrationFileNames
  /\ table \in SUBSET {f \in MigrationFileNames : EndsWithSql(f)}
  /\ tableAtStart = table
  /\ sqlFiles = <<>>
  /\ appliedMigrations = <<>>
  /\ pendingMigrations = <<>>
  /\ mi = 0
  /\ running = {}
  /\ started = <<>>
  /\ closed = <<>>
  /\ appliedThisRun = <<>>
  /\ selects = 0
  /\ inserts = <<>>
  /\ pulls = 0
  /\ summary = NoSummary
  /\ mexit = -1

\* the exit statuses psql is given: 0, and 3 for a script that failed under
\* ON_ERROR_STOP
PsqlExitCodes == {0, 3}

\* process.exit(code)
MigrateExit(code) == mpc' = "exited" /\ mexit' = code

\* the catch of the migration loop: the partial summary and exit 1
MigrateCatch(f) ==
  /\ summary' = FailedSummary(appliedThisRun, f)
  /\ MigrateExit(1)

\* proc.stdin.write(sql) to a psql that is still reading, or to one that has
\* already gone: the stream then emits 'error' (EPIPE)
StdinWrites == {"written", "EPIPE"}

\* Neither runPsql nor the spawn of the migration loop listens for 'error' on
\* proc.stdin (runDrizzlePull does): the EPIPE is an unhandled 'error' event,
\* node dies with status 1 before any catch runs and nothing more is printed.
MigrateUnhandledError ==
  /\ MigrateExit(1)
  /\ UNCHANGED summary

\* The script up to ensureMigrationsTable: DATABASE_URL is required, and the
\* .sql files of the migrations directory are listed and sorted.
MigrateStart ==
  /\ mpc = "start"
  /\ IF databaseUrl = ""
     THEN MigrateExit(1) /\ UNCHANGED sqlFiles
     ELSE /\ sqlFiles' = SqlFiles(disk)
          /\ IF Len(sqlFiles') = 0 THEN MigrateExit(0) ELSE mpc' = "ensure" /\ mexit' = mexit
  /\ UNCHANGED <<databaseUrl, disk, table, tableAtStart, appliedMigrations, pendingMigrations,
                 mi, running, started, closed, appliedThisRun, selects, inserts, pulls, summary>>

\* ensureMigrationsTable: CREATE TABLE IF NOT EXISTS leaves the rows alone; a
\* failure ends the run with exit 1 and no summary, through the catch or
\* through an unhandled EPIPE alike
MigrateEnsureTable ==
  /\ mpc = "ensure"
  /\ \E ok \in BOOLEAN : IF ok THEN mpc' = "read" /\ mexit' = mexit ELSE MigrateExit(1)
  /\ UNCHANGED <<databaseUrl, disk, table, tableAtStart, sqlFiles, appliedMigrations,
                 pendingMigrations, mi, running, started, closed, appliedThisRun, selects, inserts,
                 pulls, summary>>

\* getAppliedMigrations, the pending list, and the early exit when it is empty.
\* A failed SELECT is caught and read as no rows, unless psql went before the
\* statement was written to it.
MigrateReadApplied ==
  /\ mpc = "read"
  /\ selects' = selects + 1
  /\ \E ok \in BOOLEAN, w \in StdinWrites :
       IF ~ok /\ w = "EPIPE"
       THEN /\ MigrateUnhandledError
            /\ UNCHANGED <<appliedMigrations, pendingMigrations, mi>>
       ELSE /\ IF ok
               THEN \E rows \in RowOrders(table) : appliedMigrations' = ParseApplied(rows)
               ELSE appliedMigrations' = <<>>
            /\ pendingMigrations' = Pending(sqlFiles, appliedMigrations')
            /\ IF Len(pendingMigrations') = 0
               THEN /\ summary' = UpToDateSummary(appliedMigrations')
                    /\ MigrateExit(0)
                    /\ mi' = mi
               ELSE /\ mpc' = "loop"
                    /\ mi' = 1
                    /\ UNCHANGED <<summary, mexit>>
  /\ UNCHANGED <<databaseUrl, disk, table, tableAtStart, sqlFiles, running, started, closed,
                 appliedThisRun, inserts, pulls>>

\* the loop body up to the spawn of psql: readFile may throw
MigrateApplyStart ==
  /\ mpc = "loop"
  /\ mi <= Len(pendingMigrations)
  /\ \E readOk \in BOOLEAN :
       IF readOk
       THEN /\ running' = running \cup {pendingMigrations[mi]}
            /\ started' = Append(started, pendingMigrations[mi])
            /\ mpc' = "psql"
            /\ UNCHANGED <<summary, mexit>>
       ELSE /\ MigrateCatch(pendingMigrations[mi])
            /\ UNCHANGED <<running, started>>
  /\ UNCHANGED <<databaseUrl, disk, table, tableAtStart, sqlFiles, appliedMigrations,
                 pendingMigrations, mi, closed, appliedThisRun, selects, inserts, pulls>>

\* the close handler of psql: code !== 0 ? reject(new Error(stderr)) : resolve()
PsqlResolvesAlways(code) == TRUE

PsqlResolves(code) == code = 0

\* psql closes (or could not be spawned): code 0 resolves, any other rejects.
\* A psql that stops before the end of the file, at a failing statement or
\* at a \q, leaves the rest unread, and the write of the file to its stdin
\* may then fail with EPIPE, whatever the exit code.
MigratePsqlClose ==
  /\ mpc = "psql"
  /\ running' = running \ {pendingMigrations[mi]}
  /\ \E code \in PsqlExitCodes :
       /\ closed' = Append(closed, <<pendingMigrations[mi], code>>)
       /\ \E w \in StdinWrites :
            IF w = "EPIPE"
            THEN MigrateUnhandledError
            ELSE IF PsqlResolves(code)
            THEN mpc' = "record" /\ UNCHANGED <<summary, mexit>>
            ELSE MigrateCatch(pendingMigrations[mi])
  /\ UNCHANGED <<databaseUrl, disk, table, tableAtStart, sqlFiles, appliedMigrations,
                 pendingMigrations, mi, started, appliedThisRun, selects, inserts, pulls>>

\* await recordMigration(sqlFile); appliedThisRun.push(sqlFile). An INSERT
\* that psql never read (it went first) ends in the unhandled EPIPE.
MigrateRecord ==
  /\ mpc = "record"
  /\ LET f == pendingMigrations[mi]
     IN \E o \in InsertOutcomes(table, f) :
          /\ inserts' = Append(inserts, <<f, o>>)
          /\ IF o = "ok"
             THEN /\ table' = TableAfterInsert(table, f)
                  /\ appliedThisRun' = Append(appliedThisRun, f)
                  /\ mi' = mi + 1
                  /\ mpc' = "loop"
                  /\ UNCHANGED <<summary, mexit>>
             ELSE /\ \E w \in StdinWrites :
                       IF o = "error" /\ w = "EPIPE"
                       THEN MigrateUnhandledError
                       ELSE MigrateCatch(f)
                  /\ UNCHANGED <<table, appliedThisRun, mi>>
  /\ UNCHANGED <<databaseUrl, disk, tableAtStart, sqlFiles, appliedMigrations,
                 pendingMigrations, running, started, closed, selects, pulls>>

\* after the loop: drizzle-kit pull, the summary and exit 0
MigratePull ==
  /\ mpc = "loop"
  /\ mi > Len(pendingMigrations)
  /\ pulls' = pulls + 1
  /\ \E synced \in BOOLEAN :
       summary' = SuccessSummary(appliedThisRun, appliedMigrations, synced)
  /\ MigrateExit(0)
  /\ UNCHANGED <<databaseUrl, disk, table, tableAtStart, sqlFiles, appliedMigrations,
                 pendingMigrations, mi, running, started, closed, appliedThisRun, selects, inserts>>

NextMigrate ==
  \/ MigrateStart /\ UNCHANGED outsideMigrate
  \/ MigrateEnsureTable /\ UNCHANGED outsideMigrate
  \/ MigrateReadApplied /\ UNCHANGED outsideMigrate
  \/ MigrateApplyStart /\ UNCHANGED outsideMigrate
  \/ MigratePsqlClose /\ UNCHANGED outsideMigrate
  \/ MigrateRecord /\ UNCHANGED outsideMigrate
  \/ MigratePull /\ UNCHANGED outsideMigrate

SpecMigrate == InitMigrate /\ [][NextMigrate]_vars

(***************************************************************************)
(* Properties of collectFiles.                                             *)
(***************************************************************************)
Range(s) == {s[i] : i \in DOMAIN s}

IsPrefix(p, q) == Len(p) <= Len(q) /\ SubSeq(q, 1, Len(p)) = p

\* The walk gets to entry e: every directory above it is a readable real
\* directory not named node_modules that lstat succeeds on, and e itself is
\* not excluded by name and lstat succeeds on it.
Reached(e) ==
  /\ <<>> \notin unreadable
  /\ e.path \notin unstattable
  /\ \A k \in 1..(Len(e.path) - 1) :
        LET a == SubSeq(e.path, 1, k)
        IN /\ a \notin unreadable
           /\ a \notin unstattable
           /\ Last(a) # "node_modules"
           /\ \E d \in tree : d.path = a /\ d.kind = "dir"
  /\ Last(e.path) # "node_modules"

OversizedReached(e) == e.kind = "file" /\ Reached(e) /\ e.size > MAX_FILE_SIZE

ListedFiles == collected.sourceFiles \o collected.distFiles

ListedPaths == {Relative(RootDir, ListedFiles[i].fullPath) : i \in DOMAIN ListedFiles}

LargeWarningsFor(p) ==
  {i \in DOMAIN collected.warnings :
     collected.warnings[i][1] = "Skipping large file" /\ collected.warnings[i][2] = p}

\* C8: every regular file the walk reaches whose size exceeds MAX_FILE_SIZE is
\* in neither sourceFiles nor distFiles and has exactly one "Skipping large
\* file" warning; no other entry has such a warning.
C8_OversizedSkippedWithOneWarning ==
  cpc = "done" =>
    \A e \in tree :
      /\ OversizedReached(e) => e.path \notin ListedPaths
      /\ Cardinality(LargeWarningsFor(e.path)) = IF OversizedReached(e) THEN 1 ELSE 0

C8_Witness ==
  /\ cpc = "done"
  /\ \E e1 \in tree : \E e2 \in tree : \E e3 \in tree :
        /\ e1 # e2
        /\ OversizedReached(e1) /\ OversizedReached(e2)
        /\ IsDist(e1.path)
        /\ e3.kind = "file" /\ e3.path \in ListedPaths
  /\ Len(collected.warnings) = 2

\* C9: no symbolic link is walked into, and no listed file is a symbolic link
\* or lies below one.
C9_SymlinksNeitherFollowedNorListed ==
  cpc = "done" =>
    \A e \in tree :
      e.kind = "symlink" =>
        /\ e.path \notin Range(collected.walked)
        /\ \A p \in ListedPaths : ~IsPrefix(e.path, p)

C9_Witness ==
  /\ cpc = "done"
  /\ \E e1 \in tree : \E e2 \in tree : \E e3 \in tree :
        /\ e1.kind = "symlink" /\ e1.target = "file" /\ Reached(e1)
        /\ e2.kind = "symlink" /\ e2.target = "dir" /\ Reached(e2)
        /\ Len(e2.path) >= 2
        /\ e3.kind = "file" /\ e3.path \in ListedPaths

\* The positions of the output-folder marker in a relative path: a segment
\* "dist" followed by a further segment ("dist/" at the start, "/dist/" inside).
MarkerPositions(p) == {i \in 1..(Len(p) - 1) : p[i] = "dist"}

\* What a path becomes when one marker is stripped once: the marker segment
\* alone taken out, or the path cut through that marker.
StrippedOnce(p) ==
  {SubSeq(p, 1, i - 1) \o SubSeq(p, i + 1, Len(p)) : i \in MarkerPositions(p)}
    \cup {SubSeq(p, i + 1, Len(p)) : i \in MarkerPositions(p)}

\* the destination key below the category folder
KeyBelowCategory(f) == SubSeq(f.s3Key, Len(BasePath) + 2, Len(f.s3Key))

\* C10: the destination key of a collected file whose relative path holds the
\* marker is that path with the marker stripped exactly once; the key of any
\* other collected file is its full relative path.
C10_KeyStripsMarkerOnce ==
  cpc = "done" =>
    \A i \in DOMAIN ListedFiles :
      LET f == ListedFiles[i]
          p == Relative(RootDir, f.fullPath)
      IN IF MarkerPositions(p) # {}
         THEN KeyBelowCategory(f) \in StrippedOnce(p)
         ELSE KeyBelowCategory(f) = p

(***************************************************************************)
(* Properties of uploadFileWithRetry.                                      *)
(***************************************************************************)
AllFailed(os) == \A i \in DOMAIN os : os[i] \in UploadErrors

\* C1: when the upload fails on its first k invocations and succeeds on
\* invocation k+1, the function has returned success after exactly k+1
\* invocations, and the wait after the failure of invocation i (from 0) was
\* 2^i * 1000 ms: 1000, 2000, 4000, ... in that order.
C1_SuccessAfterKFailures ==
  \A j \in DOMAIN outcomes :
    outcomes[j] = "ok" =>
      /\ j = Len(outcomes)
      /\ j <= maxRetries
      /\ upc = "done"
      /\ uresult.success
      /\ Len(waits) = j - 1
      /\ \A i \in 0..(j - 2) : waits[i + 1] = (2 ^ i) * 1000

C1_Witness ==
  /\ upc = "done"
  /\ uresult.success
  /\ Len(outcomes) = 4
  /\ AllFailed(SubSeq(outcomes, 1, 3))
  /\ waits = <<1000, 2000, 4000>>

\* C2: when every invocation fails, the upload is invoked exactly maxRetries
\* times and then failure is returned; there are maxRetries - 1 waits, none
\* of them after the last failed invocation.
C2_ExactlyMaxRetriesInvocations ==
  /\ Len(outcomes) <= maxRetries
  /\ Len(waits) <= maxRetries - 1
  /\ (Len(outcomes) = maxRetries) => upc # "wait"
  /\ (upc = "done" /\ ~uresult.success) =>
        /\ AllFailed(outcomes)
        /\ Len(outcomes) = maxRetries
        /\ Len(waits) = maxRetries - 1
  /\ (upc = "done" /\ AllFailed(outcomes)) => ~uresult.success

C2_Witness ==
  /\ upc = "done"
  /\ ~uresult.success
  /\ maxRetries = 4
  /\ Len(outcomes) = 4
  /\ Len(waits) = 3

(***************************************************************************)
(* Properties of syncToS3.                                                 *)
(***************************************************************************)
\* C3: uploadFileWithRetry is called on every file of the task list whatever
\* the outcomes: each file whose retries are exhausted adds exactly one entry
\* to the error list, the files after it are still uploaded, and the sync
\* reports success exactly when the error list is empty.
C3_EveryFileAttempted ==
  /\ Len(calls) <= Len(allFiles)
  /\ calls = SubSeq(allFiles, 1, Len(calls))
  /\ spc \in {"loop", "done"} =>
        /\ Len(errors) = Len(exhausted)
        /\ \A i \in DOMAIN errors : errors[i][2] = exhausted[i].s3Key
  /\ spc = "done" =>
        /\ calls = allFiles
        /\ syncResult.errors = errors
        /\ syncResult.success <=> (exhausted = <<>>)
        /\ uploaded + Len(exhausted) = Len(allFiles)

C3_Witness ==
  /\ spc = "done"
  /\ Len(allFiles) = 3
  /\ exhausted = <<allFiles[1], allFiles[2]>>
  /\ calls = allFiles
  /\ uploaded = 1
  /\ ~syncResult.success

(***************************************************************************)
(* Properties of waitForDeployment.                                        *)
(***************************************************************************)
NonTerminalBefore(n) == \A i \in 1..(n - 1) : statuses[i] \in NonTerminalStatuses

\* C4: when the first n-1 status fetches answer a non-terminal status and
\* fetch n answers "success", waitForDeployment has returned that deployment
\* after exactly n status fetches and n-1 sleeps, with no build log fetch.
C4_SuccessAfterNFetches ==
  \A n \in DOMAIN statuses :
    (statuses[n] = "success" /\ NonTerminalBefore(n)) =>
      /\ n <= maxAttempts
      /\ Len(statuses) = n
      /\ ppc = "returned"
      /\ pollValue = <<"success">>
      /\ sleeps = n - 1
      /\ logAnswers = <<>>

C4_Witness ==
  /\ ppc = "returned"
  /\ statuses = <<"pending", "pending", "success">>
  /\ sleeps = 2
  /\ maxAttempts = 3

\* C5: when fetch n is the first to answer a terminal failure status,
\* waitForDeployment fails after exactly n status fetches: no status fetch
\* and no sleep follows that fetch, whatever attempt budget is left.
C5_FailureStopsPolling ==
  \A n \in DOMAIN statuses :
    (statuses[n] \in {"failed", "error"} /\ NonTerminalBefore(n)) =>
      /\ Len(statuses) = n
      /\ sleeps = n - 1
      /\ ppc \in {"logs", "thrown"}
      /\ pattempt = n
      /\ dpc = "exited" => (exitCode = 1 /\ urlRequests = 0)

C5_Witness ==
  /\ ppc = "thrown"
  /\ dpc = "exited"
  /\ statuses = <<"pending", "error">>
  /\ maxAttempts = 4
  /\ sleeps = 1

\* C6 as stated: for both terminal failure statuses the build logs are
\* fetched before the failure is reported, and the failure carries them.
C6_LogsFetchedForEveryFailure ==
  (ppc = "thrown" /\ statuses # <<>> /\ Last(statuses) \in {"failed", "error"}) =>
    /\ Len(logAnswers) = 1
    /\ logAnswers[1] \in BuildLogs => pollValue = <<"Deployment failed: ", logAnswers[1]>>

\* C6 as amended: on "failed" the build logs are fetched once before the
\* failure is reported, and the reported failure carries them when that
\* fetch succeeds (the error of the fetch when it does not); on "error" the
\* failure is reported at once, with no build log fetch and no detail.
C6_LogsFetchedOnFailedOnly ==
  (ppc = "thrown" /\ statuses # <<>>) =>
    /\ Last(statuses) = "failed" =>
          /\ Len(logAnswers) = 1
          /\ pollValue = IF logAnswers[1] \in BuildLogs
                         THEN <<"Deployment failed: ", logAnswers[1]>>
                         ELSE <<HttpError>>
    /\ Last(statuses) = "error" =>
          /\ logAnswers = <<>>
          /\ pollValue = <<"Deployment failed">>

C6_Witness ==
  /\ ppc = "thrown"
  /\ statuses = <<"pending", "failed">>
  /\ logAnswers = <<"log: build error">>
  /\ pollValue = <<"Deployment failed: ", "log: build error">>

AllNonTerminal == \A i \in DOMAIN statuses : statuses[i] \in NonTerminalStatuses

IsTimeoutFailure == ppc = "thrown" /\ pollValue = <<"Deployment timeout - please check manually">>

IsExplicitFailure ==
  /\ ppc = "thrown"
  /\ \/ pollValue = <<"Deployment failed">>
     \/ \E l \in BuildLogs : pollValue = <<"Deployment failed: ", l>>

\* C7: when all maxAttempts status fetches answer a non-terminal status,
\* waitForDeployment makes exactly maxAttempts fetches and then fails with
\* the timeout failure; the timeout failure and the explicit failures
\* ("failed", "error") are told apart, and neither is reported as the other.
C7_TimeoutDistinctFromFailure ==
  /\ Len(statuses) <= maxAttempts
  /\ (ppc = "thrown" /\ AllNonTerminal) => (IsTimeoutFailure /\ Len(statuses) = maxAttempts)
  /\ IsTimeoutFailure => (AllNonTerminal /\ Len(statuses) = maxAttempts /\ logAnswers = <<>>)
  /\ IsExplicitFailure => (statuses # <<>> /\ Last(statuses) \in {"failed", "error"})
  /\ ~(IsTimeoutFailure /\ IsExplicitFailure)
  /\ (dpc = "exited" /\ ppc = "thrown") => (deployLog[2] = pollValue /\ exitCode = 1)

C7_Witness ==
  /\ IsTimeoutFailure
  /\ dpc = "exited"
  /\ maxAttempts = 4
  /\ statuses = <<"pending", "pending", "pending", "pending">>

\* The entry lies below a directory named node_modules, at any depth.
UnderNodeModules(e) ==
  \E k \in 1..(Len(e.path) - 1) :
    /\ e.path[k] = "node_modules"
    /\ \E d \in tree : d.path = SubSeq(e.path, 1, k) /\ d.kind = "dir"

WarningsNaming(p) ==
  {i \in DOMAIN collected.warnings :
     collected.warnings[i][2] = p \/ collected.warnings[i][2] = RootDir \o p}

\* C11: no entry below a directory named node_modules, at any depth, is put
\* in sourceFiles or distFiles, walked into, or named by a warning, whatever
\* its size: the exclusion by name comes before the size is looked at.
C11_NodeModulesNeverListedNorWarned ==
  cpc = "done" =>
    \A e \in tree :
      UnderNodeModules(e) =>
        /\ e.path \notin ListedPaths
        /\ e.path \notin Range(collected.walked)
        /\ WarningsNaming(e.path) = {}

C11_Witness ==
  /\ cpc = "done"
  /\ unreadable = {}
  /\ unstattable = {}
  /\ \E e1 \in tree : \E e2 \in tree : \E e3 \in tree :
        /\ e1.kind = "file" /\ e1.size > MAX_FILE_SIZE /\ UnderNodeModules(e1)
        /\ Len(e1.path) = 3 /\ e1.path[2] = "node_modules"
        /\ e2.kind = "file" /\ e2.size <= MAX_FILE_SIZE /\ UnderNodeModules(e2)
        /\ Len(e2.path) = 2
        /\ e3.kind = "file" /\ e3.path \in ListedPaths
  /\ collected.warnings = <<>>

(***************************************************************************)
(* Properties of qb-db-migrate.                                            *)
(***************************************************************************)
\* C12: a migration file whose filename was in _migrations when the run
\* started is never executed again, also when the query that reads the
\* applied filenames fails.
C12_AppliedNeverExecutedAgain ==
  \A i \in DOMAIN started : started[i] \notin tableAtStart

\* C13: the pending files are applied one at a time in ascending filename
\* order: the files psql was started for are a prefix of the pending list and
\* ascend, at most one psql process runs, and when a migration starts every
\* migration started before it has finished and is recorded.
C13_MigrationsOneAtATimeInOrder ==
  /\ Cardinality(running) <= 1
  /\ Len(started) <= Len(pendingMigrations)
  /\ started = SubSeq(pendingMigrations, 1, Len(started))
  /\ \A i, j \in DOMAIN started : i < j => NameLess(started[i], started[j])
  /\ \A i \in DOMAIN started : EndsWithSql(started[i]) /\ started[i] \in disk
  /\ running # {} => (mpc = "psql" /\ running = {started[Len(started)]})
  /\ mpc \in {"psql", "record"} =>
        appliedThisRun = SubSeq(started, 1, Len(started) - 1)
  /\ mpc = "loop" => appliedThisRun = started
  /\ \A i \in DOMAIN appliedThisRun : appliedThisRun[i] \in table

C13_Witness ==
  /\ mpc = "psql"
  /\ started = <<FileName(<<" ", "1">>, "sql"), FileName(<<"1">>, "sql"), FileName(<<"2">>, "sql")>>
  /\ appliedThisRun = <<FileName(<<" ", "1">>, "sql"), FileName(<<"1">>, "sql")>>
  /\ running = {FileName(<<"2">>, "sql")}
  /\ FileName(<<"1">>, "txt") \in disk

\* the category folder of a task's destination key
Category(f) == f.s3Key[Len(BasePath) + 1]

\* the uploads that have returned
Returned == uploaded + Len(errors)

\* C14: the files are uploaded one at a time in the order of the task list,
\* all source files in traversal order and then all dist files: at most one
\* upload, its retries and waits included, is in flight, and the upload of a
\* file starts only after the upload of the file before it has returned.
C14_UploadsOneAtATimeInOrder ==
  /\ spc \in {"loop", "awaiting", "done"} =>
        /\ Len(allFiles) = Len(collected.sourceFiles) + Len(collected.distFiles)
        /\ \A i \in DOMAIN allFiles :
              IF i <= Len(collected.sourceFiles)
              THEN allFiles[i] = collected.sourceFiles[i] /\ Category(allFiles[i]) = "source"
              ELSE /\ allFiles[i] = collected.distFiles[i - Len(collected.sourceFiles)]
                   /\ Category(allFiles[i]) = "dist"
  /\ calls = SubSeq(allFiles, 1, Len(calls))
  /\ Len(calls) - Returned \in {0, 1}
  /\ upc \in {"try", "wait", "done"} =>
        /\ spc = "awaiting"
        /\ ufile = calls[Len(calls)]
        /\ Returned = Len(calls) - 1
  /\ spc # "awaiting" => (upc = "idle" /\ Returned = Len(calls))

C14_Witness ==
  /\ spc = "awaiting"
  /\ upc = "wait"
  /\ Len(calls) = 3
  /\ Category(calls[1]) = "source"
  /\ Category(calls[2]) = "dist"
  /\ Len(errors) = 1
  /\ uploaded = 1

\* the run stopped in the catch of the migration loop
MigrationFailed == mpc = "exited" /\ summary.status = "failed"

\* C15: when applying or recording a pending migration fails the runner
\* stops: no later pending migration is executed, the schema pull is not run,
\* the summary has status "failed", names the failing file and lists exactly
\* the migrations applied and recorded earlier in the run, and the exit
\* status is not zero.
C15_FailureStopsTheRun ==
  /\ (mpc = "exited" /\ mi \in DOMAIN pendingMigrations) =>
        /\ MigrationFailed
        /\ summary.failed_file = pendingMigrations[mi]
        /\ summary.files_applied = SubSeq(pendingMigrations, 1, mi - 1)
        /\ summary.files_applied = appliedThisRun
        /\ summary.migrations_applied = mi - 1
        /\ \A i \in DOMAIN inserts :
              inserts[i][2] = "ok" <=> inserts[i][1] \in Range(summary.files_applied)
        /\ \A j \in (mi + 1)..Len(pendingMigrations) : pendingMigrations[j] \notin Range(started)
        /\ Len(started) <= mi
        /\ pulls = 0
        /\ mexit # 0
        /\ running = {}
  /\ MigrationFailed => mi \in DOMAIN pendingMigrations

InsertsOf(f) == {i \in DOMAIN inserts : inserts[i][1] = f}

\* file f was newly applied in the run: its psql exited 0, and the run has
\* moved on from recording it
NewlyApplied(f) ==
  \E j \in DOMAIN closed :
     /\ closed[j] = <<f, 0>>
     /\ ~(mpc = "record" /\ j = Len(closed))

\* C16: the applied filenames are read from the tracking table exactly once
\* in a run, before any migration is applied; the table is appended to exactly
\* once for each file newly applied in the run (a file whose psql exited 0 has
\* one row added by one INSERT, and no other file has), and no row is ever
\* changed or removed.
C16_TableReadOnceAppendedOncePerFile ==
  /\ \A f \in MigrationFileNames :
        NewlyApplied(f) <=>
           /\ f \in table \ tableAtStart
           /\ Cardinality({k \in InsertsOf(f) : inserts[k][2] = "ok"}) = 1
  /\ selects <= 1
  /\ started # <<>> => selects = 1
  /\ mpc \in {"start", "ensure", "read"} => (selects = 0 /\ started = <<>> /\ inserts = <<>>)
  /\ tableAtStart \subseteq table
  /\ table = tableAtStart \cup Range(appliedThisRun)
  /\ \A f \in MigrationFileNames : Cardinality(InsertsOf(f)) <= 1
  /\ \A i \in DOMAIN appliedThisRun :
        /\ appliedThisRun[i] \notin tableAtStart
        /\ \E k \in DOMAIN inserts : inserts[k] = <<appliedThisRun[i], "ok">>
  /\ \A k \in DOMAIN inserts :
        /\ inserts[k][1] \in Range(started)
        /\ inserts[k][2] = "ok" => inserts[k][1] \in Range(appliedThisRun)
  /\ Len(inserts) <= Len(started)

(***************************************************************************)
(* How the fragments report their errors.                                  *)
(***************************************************************************)
PollFailureMessages ==
  {<<"Deployment failed">>, <<"Deployment timeout - please check manually">>, <<HttpError>>}
    \cup {<<"Deployment failed: ", l>> : l \in BuildLogs}

RetryReturnsItsErrors ==
  upc = "done" =>
    /\ uresult.success <=> outcomes[Len(outcomes)] = "ok"
    /\ ~uresult.success => uresult.error \in (UploadErrors \ {""}) \cup {"Upload failed after all retries"}

ClassifierReturnsItsErrors ==
  cpc = "done" =>
    \A d \in unreadable \cap Range(collected.walked) :
      \E i \in DOMAIN collected.warnings :
        collected.warnings[i] = <<"Cannot read directory", RootDir \o d>>

\* C17 as stated: every fragment (retry, poll, classifier) reports its errors
\* as a returned result; none ends by raising an exception to its caller.
C17_ErrorsReturnedNeverThrown ==
  /\ RetryReturnsItsErrors
  /\ ClassifierReturnsItsErrors
  /\ ppc # "thrown"

\* C17 as amended: the retry fragment returns a success flag with an error
\* detail, and the classifier returns its errors in its warnings list; the
\* poll fragment returns only on "success" and reports every failure (a
\* "failed" or "error" status, the timeout, a failed request) by throwing an
\* Error, which its caller deploy catches, prints, and exits with status 1.
C17_PollThrowsOthersReturn ==
  /\ RetryReturnsItsErrors
  /\ ClassifierReturnsItsErrors
  /\ ppc = "returned" => (pollValue = <<"success">> /\ Last(statuses) = "success")
  /\ ppc = "thrown" =>
        /\ pollValue \in PollFailureMessages
        /\ statuses # <<>> => Last(statuses) # "success"
  /\ (statuses # <<>> /\ Last(statuses) \in {"error", HttpError}) => ppc = "thrown"
  /\ (dpc = "exited" /\ ppc = "thrown") =>
        /\ exitCode = 1
        /\ deployLog = <<"Deployment Status Unknown", pollValue>>
        /\ urlRequests = 0

C17_Witness ==
  /\ dpc = "exited"
  /\ ppc = "thrown"
  /\ statuses = <<"failed">>
  /\ logAnswers = <<"log: boot error">>
  /\ deployLog = <<"Deployment Status Unknown", <<"Deployment failed: ", "log: boot error">>>>
  /\ exitCode = 1

\* C18: when uploadFileWithRetry returns failure, the error detail of its
\* result is the message of the error of the last failed invocation (the
\* fixed text "Upload failed after all retries" when that error has no
\* message), not that of an earlier one; when it returns success the result
\* carries no error.
C18_FailureCarriesLastError ==
  upc = "done" =>
    LET last == outcomes[Len(outcomes)]
    IN IF uresult.success
       THEN last = "ok" /\ uresult.error = "undefined"
       ELSE /\ last # "ok"
            /\ uresult.error = IF last = "" THEN "Upload failed after all retries" ELSE last

C18_Witness ==
  /\ upc = "done"
  /\ ~uresult.success
  /\ outcomes = <<"AccessDenied", "", "SlowDown">>
  /\ uresult.error = "SlowDown"

(***************************************************************************)
(* Properties of deploy of qb-deploy-frontend.                             *)
(***************************************************************************)
\* C19: the steps run in the order build, sync, notify: no file is uploaded
\* unless the build succeeded or was skipped, the platform is notified only
\* after every file upload succeeded, and when the build or an upload fails
\* the process exits with a non-zero status without notifying the platform.
C19_BuildThenSyncThenNotify ==
  /\ fpc = "build" => (spc = "idle" /\ calls = <<>> /\ notifications = <<>>)
  /\ (spc # "idle" \/ calls # <<>>) => (buildResult.success /\ fpc # "build")
  /\ fpc = "sync" => notifications = <<>>
  /\ Len(notifications) <= 1
  /\ notifications # <<>> =>
        /\ spc = "done"
        /\ calls = allFiles
        /\ uploaded = Len(allFiles)
        /\ exhausted = <<>>
        /\ buildResult.success
  /\ fpc = "exited" =>
        IF buildResult.success /\ spc = "done" /\ exhausted = <<>>
        THEN Len(notifications) = 1 /\ fexit = 0
        ELSE notifications = <<>> /\ fexit = 1
  /\ (fpc = "exited" /\ ~buildResult.success) => (spc = "idle" /\ calls = <<>>)

C19_Witness ==
  /\ fpc = "exited"
  /\ fexit = 1
  /\ buildResult.success
  /\ buildResult.command = <<"npm", "run", "build:prod">>
  /\ Len(calls) = 3
  /\ uploaded = 2
  /\ Len(exhausted) = 1
  /\ notifications = <<>>

(***************************************************************************)
(* Properties of deploy of qb-deploy-server.                               *)
(***************************************************************************)
\* C20: the deployment URL is registered with the platform (set-server-url)
\* only after the poll returned with status "success"; on a "failed" or
\* "error" status, on the poll timeout and on a failure of an earlier step
\* the URL is never registered and the process exits with a non-zero status.
C20_UrlRegisteredOnlyAfterSuccess ==
  /\ urlRequests <= 1
  /\ urlRequests = 1 =>
        /\ ppc = "returned"
        /\ statuses # <<>> /\ Last(statuses) = "success"
        /\ \A i \in 1..(Len(statuses) - 1) : statuses[i] = "pending"
  /\ (dpc = "exited" /\ ppc # "returned") => (urlRequests = 0 /\ exitCode = 1)
  /\ (dpc = "exited" /\ exitCode = 0) => (urlRequests = 1 /\ ppc = "returned")
  /\ (\E i \in DOMAIN statuses : statuses[i] \in {"failed", "error", HttpError}) =>
        urlRequests = 0
  /\ (ppc = "returned" /\ dpc = "exited") => urlRequests = 1

C20_Witness ==
  /\ dpc = "exited"
  /\ ppc = "thrown"
  /\ maxAttempts = 2
  /\ statuses = <<"pending", "pending">>
  /\ pollValue = <<"Deployment timeout - please check manually">>
  /\ urlRequests = 0
  /\ exitCode = 1

(***************************************************************************)
(* Properties of buildFrontend.                                            *)
(***************************************************************************)
\* the script name has a command in package.json
Scripted(name) == pkg.kind = "json" /\ pkg.scripts[name] \notin {"absent", ""}

ExpectedScript ==
  IF Scripted("frontend:build") THEN "frontend:build"
  ELSE IF Scripted("build:prod") THEN "build:prod"
  ELSE "build:production"

ExpectedPackageManager ==
  IF "pnpm-lock.yaml" \in lockfiles THEN "pnpm"
  ELSE IF "package-lock.json" \in lockfiles THEN "npm"
  ELSE IF "yarn.lock" \in lockfiles THEN "yarn"
  ELSE "pnpm"

\* C21: buildFrontend runs the first of frontend:build, build:prod and
\* build:production that package.json has a command for, with the package
\* manager chosen by pnpm > npm > yarn over the lock files present (pnpm when
\* there is none); when package.json has none of the three scripts the build
\* is skipped and reported as a success.
C21_BuildScriptAndPackageManagerPriority ==
  (fpc # "build" /\ pkg.kind = "json") =>
    IF Scripted("frontend:build") \/ Scripted("build:prod") \/ Scripted("build:production")
    THEN /\ buildCommand = <<ExpectedPackageManager, "run", ExpectedScript>>
         /\ buildResult # NoBuildResult => buildResult.command = buildCommand
         /\ ~buildResult.skipped
    ELSE /\ buildCommand = <<>>
         /\ buildResult.success
         /\ buildResult.skipped
         /\ buildResult.command = <<>>
         /\ fpc = "sync"

C21_Witness ==
  /\ fpc = "sync"
  /\ pkg.kind = "json"
  /\ pkg.scripts["frontend:build"] = "absent"
  /\ Scripted("build:prod") /\ Scripted("build:production") /\ Scripted("build")
  /\ lockfiles = {"package-lock.json", "yarn.lock"}
  /\ buildResult.command = <<"npm", "run", "build:prod">>

(***************************************************************************)
(* Properties of requireEnvVars.                                           *)
(***************************************************************************)
RequestedNames ==
  {"VITE_API_BASE_URL", "VITE_APP_ID", "URL_SLUG", "CDN_ACCESS_KEY_ID",
   "CDN_SECRET_ACCESS_KEY", "CDN_BUCKET_NAME"}

SomeRequestedMissing == \E n \in RequestedNames : processEnv[n] \in {"unset", ""}

\* C22: when a requested variable is unset or empty the process exits with
\* code 1 before any step of the command is performed; otherwise
\* requireEnvVars returns a map of exactly the requested names, each with
\* its non-empty value.
C22_MissingEnvExitsBeforeAnyStep ==
  /\ SomeRequestedMissing =>
        /\ fpc \in {"env", "exited"}
        /\ fpc = "exited" => fexit = 1
        /\ buildResult = NoBuildResult
        /\ spc = "idle" /\ calls = <<>> /\ notifications = <<>>
        /\ envResult = <<>>
  /\ (~SomeRequestedMissing /\ fpc # "env") =>
        /\ DOMAIN envResult = RequestedNames
        /\ \A n \in RequestedNames : envResult[n] = processEnv[n] /\ envResult[n] # ""
        /\ fexit # 1

C22_Witness ==
  /\ fpc = "exited"
  /\ fexit = 1
  /\ processEnv["URL_SLUG"] = ""
  /\ processEnv["CDN_BUCKET_NAME"] = "unset"
  /\ \A n \in RequestedNames \ {"URL_SLUG", "CDN_BUCKET_NAME"} : processEnv[n] = "value"
  /\ buildResult = NoBuildResult

\* C23: the schema pull is run only after every pending migration of the run
\* was applied and recorded, never after a failed migration and never when
\* nothing was pending; a failing pull leaves the outcome alone: the summary
\* has status "success" with schema_synced false and the exit status is 0.
C23_PullOnlyAfterAllApplied ==
  /\ pulls <= 1
  /\ pulls = 1 =>
        /\ pendingMigrations # <<>>
        /\ appliedThisRun = pendingMigrations
        /\ \A i \in DOMAIN pendingMigrations :
              /\ pendingMigrations[i] \in table
              /\ \E k \in DOMAIN inserts : inserts[k] = <<pendingMigrations[i], "ok">>
        /\ \A k \in DOMAIN inserts : inserts[k][2] = "ok"
        /\ mpc = "exited"
        /\ summary.status = "success"
        /\ summary.schema_synced \in BOOLEAN
        /\ mexit = 0
  /\ (mpc = "exited" /\ summary.status \in {"failed", "up_to_date", "none"}) => pulls = 0
  /\ (mpc = "exited" /\ pendingMigrations = <<>>) => pulls = 0
  /\ (mpc = "exited" /\ summary.status = "success") => pulls = 1

C23_Witness ==
  /\ mpc = "exited"
  /\ pulls = 1
  /\ summary.status = "success"
  /\ summary.schema_synced = FALSE
  /\ Len(appliedThisRun) = 2
  /\ mexit = 0

\* the psql process of file f closed with exit status code
ClosedWith(f, code) == \E j \in DOMAIN closed : closed[j] = <<f, code>>

\* recordMigration was called for file f (whatever the INSERT answered)
InsertAttempted(f) == \E k \in DOMAIN inserts : inserts[k][1] = f

\* C24: a filename is inserted into _migrations only after the psql process
\* that executed that file exited 0; the filename of a migration whose
\* execution failed is never recorded; every filename in files_applied has been
\* both executed and recorded.
C24_RecordedOnlyAfterPsqlSucceeded ==
  /\ \A k \in DOMAIN inserts : ClosedWith(inserts[k][1], 0)
  /\ \A f \in table \ tableAtStart : ClosedWith(f, 0) /\ InsertAttempted(f)
  /\ \A j \in DOMAIN closed :
        closed[j][2] # 0 =>
           /\ ~InsertAttempted(closed[j][1])
           /\ closed[j][1] \notin table \ tableAtStart
           /\ closed[j][1] \notin Range(appliedThisRun)
  /\ summary # NoSummary =>
        \A i \in DOMAIN summary.files_applied :
           LET f == summary.files_applied[i]
           IN /\ f \in Range(started)
              /\ ClosedWith(f, 0)
              /\ \E k \in DOMAIN inserts : inserts[k] = <<f, "ok">>
              /\ f \in table

C24_Witness ==
  /\ mpc = "exited"
  /\ summary.status = "failed"
  /\ Len(summary.files_applied) = 1
  /\ Len(closed) = 2
  /\ closed[1][2] = 0
  /\ closed[2][2] # 0
  /\ closed[2][1] \notin table
  /\ Len(inserts) = 1

\* A regular file that is no symbolic link, is reached through no symbolic
\* link and no node_modules entry, and whose size is at most the ceiling.
Eligible(e) ==
  /\ e.kind = "file"
  /\ e.size <= MAX_FILE_SIZE
  /\ \A k \in 1..Len(e.path) : e.path[k] # "node_modules"
  /\ \A k \in 1..(Len(e.path) - 1) :
        \E d \in tree : d.path = SubSeq(e.path, 1, k) /\ d.kind = "dir"

\* The entry lies below a directory readdirSync throws on.
BelowUnreadable(e) ==
  \E k \in 0..(Len(e.path) - 1) : SubSeq(e.path, 1, k) \in unreadable

\* lstatSync throws on the entry or on a directory above it
LstatFailedOnWay(e) ==
  \E k \in 1..Len(e.path) : SubSeq(e.path, 1, k) \in unstattable

\* how many tasks of sourceFiles and distFiles together are for the path p
Occurrences(p) ==
  Cardinality({i \in DOMAIN ListedFiles : ListedFiles[i].fullPath = RootDir \o p})

\* C25, as stated: every eligible file of the tree appears exactly once in
\* exactly one of sourceFiles and distFiles, and nothing else appears.
C25_EligibleFilesPartitioned ==
  cpc = "done" =>
    /\ \A e \in tree : Occurrences(e.path) = IF Eligible(e) THEN 1 ELSE 0
    /\ ListedPaths \subseteq {e.path : e \in tree}

\* C25, amended: every eligible file that does not lie below a directory that
\* cannot be read, and that lstat succeeds on as on every directory above it,
\* appears exactly once in exactly one of sourceFiles and distFiles, and
\* nothing else appears; a file below a directory that cannot be read is in
\* neither list, and that directory has a warning; an entry lstat fails on is
\* passed over without a warning.
C25_ReadableEligibleFilesPartitioned ==
  cpc = "done" =>
    /\ \A e \in tree :
          Occurrences(e.path) =
             IF Eligible(e) /\ ~BelowUnreadable(e) /\ ~LstatFailedOnWay(e) THEN 1 ELSE 0
    /\ unstattable # {} => collected.warnings = <<>> \/ \E e \in tree : OversizedReached(e)
    /\ ListedPaths \subseteq {e.path : e \in tree}
    /\ \A i \in DOMAIN collected.sourceFiles :
          \A j \in DOMAIN collected.distFiles :
             collected.sourceFiles[i].fullPath # collected.distFiles[j].fullPath
    /\ \A d \in unreadable :
          d \in Range(collected.walked) =>
             \E i \in DOMAIN collected.warnings :
                collected.warnings[i] = UnreadableWarning(RootDir \o d)

C25_Witness ==
  /\ cpc = "done"
  /\ \E e1 \in tree : \E e2 \in tree : \E e3 \in tree :
        /\ Eligible(e1) /\ BelowUnreadable(e1) /\ Occurrences(e1.path) = 0
        /\ Eligible(e2) /\ e2.size = MAX_FILE_SIZE
        /\ \E i \in DOMAIN collected.sourceFiles :
              collected.sourceFiles[i].fullPath = RootDir \o e2.path
        /\ Eligible(e3)
        /\ \E i \in DOMAIN collected.distFiles :
              collected.distFiles[i].fullPath = RootDir \o e3.path
  /\ Len(collected.warnings) = 1

\* C26: within one collectFiles result no two upload tasks have the same
\* destination key, so no upload of a run overwrites another of the same run.
C26_DestinationKeysDistinct ==
  cpc = "done" =>
    \A i, j \in DOMAIN ListedFiles :
      i # j => ListedFiles[i].s3Key # ListedFiles[j].s3Key

\* the files of a task list whose upload succeeded
Succeeded(files) ==
  Len(files) - Cardinality({i \in DOMAIN exhausted : exhausted[i] \in Range(files)})

\* C27: in the result of syncToS3, source_uploaded is the number of source
\* files whose upload succeeded and dist_uploaded the number of dist files
\* whose upload succeeded; their sum is the count of successful uploads and
\* neither is negative.
C27_UploadedCountsPerCategory ==
  spc = "done" =>
    /\ syncResult.source_uploaded = Succeeded(collected.sourceFiles)
    /\ syncResult.dist_uploaded = Succeeded(collected.distFiles)
    /\ syncResult.source_uploaded + syncResult.dist_uploaded = uploaded
    /\ syncResult.source_uploaded >= 0
    /\ syncResult.dist_uploaded >= 0

(***************************************************************************)
(* The archive-based qb-deploy-frontend: createArchive, uploadToBackend    *)
(* and deploy                                                              *)
(***************************************************************************)
\* the arguments of tar: the whole project with --full, else dist, else
\* frontend/dist, <<>> when neither directory exists
TarArgs(full, dirs) ==
  IF full
  THEN <<"-czf", ArchiveName, "--exclude=./node_modules", "--exclude=*/node_modules",
         "--exclude=.git", "--exclude=.env", "--exclude=*.lock", "--exclude=pnpm-lock.yaml",
         "--exclude=package-lock.json", "--exclude=yarn.lock", "--exclude=deploy-frontend.tar.gz",
         ".">>
  ELSE IF "dist" \in dirs THEN <<"-czf", ArchiveName, "dist">>
  ELSE IF "frontend/dist" \in dirs THEN <<"-czf", ArchiveName, "-C", "frontend", "dist">>
  ELSE <<>>

\* how the spawned tar ends: the event, the exit code, whether the archive
\* file exists afterwards, and whether readFileSync can read it
TarOutcomes ==
  [event : {"close"}, code : {0, 2}, written : BOOLEAN, readable : {TRUE}]
    \cup {[event |-> "close", code |-> 0, written |-> TRUE, readable |-> FALSE]}
    \cup {[event |-> "error", code |-> -1, written |-> FALSE, readable |-> TRUE]}
    \cup {[event |-> "spawnThrows", code |-> -1, written |-> FALSE, readable |-> TRUE]}

\* createArchive settles with no result. spawn throws inside the promise
\* executor (execve refused, E2BIG): createArchive rejects and the catch of
\* deploy calls process.exit(1). Or readFileSync(archivePath) throws inside
\* the 'close' handler: the exception is uncaught, the promise is never
\* settled and node dies with status 1.
createArchiveThrows(tar) ==
  \/ tar.event = "spawnThrows"
  \/ tar.event = "close" /\ tar.code = 0 /\ tar.written /\ ~tar.readable

\* the handlers of the tar child: code === 0 && existsSync(archivePath)
TarResult(tar) ==
  IF tar.event = "close" /\ tar.code = 0 /\ tar.written
  THEN [success |-> TRUE, archivePath |-> ArchiveName, error |-> "undefined"]
  ELSE IF tar.event = "close"
  THEN [success |-> FALSE, archivePath |-> "null", error |-> "tar failed with exit code"]
  ELSE [success |-> FALSE, archivePath |-> "null", error |-> "spawn error"]

\* what the backend answers to the upload of the archive
BackendAnswers ==
  {"ok", "non-JSON", "status 500 with detail", "status 500", "fetch failed", "read failed"}

\* uploadToBackend never throws: every failure is returned
uploadToBackend(answer) ==
  IF answer = "ok" THEN [success |-> TRUE, error |-> "undefined"]
  ELSE IF answer = "non-JSON"
  THEN [success |-> FALSE, error |-> "Server returned non-JSON response"]
  ELSE IF answer = "status 500 with detail" THEN [success |-> FALSE, error |-> "detail"]
  ELSE IF answer = "status 500" THEN [success |-> FALSE, error |-> "HTTP 500"]
  ELSE [success |-> FALSE, error |-> answer]

InitArchive ==
  /\ IdleEnv
  /\ IdleCron
  /\ IdleCollect
  /\ IdleRetry
  /\ IdleSync
  /\ IdlePoll
  /\ IdleMigrate
  /\ IdleFront
  /\ apc = "build"
  /\ includeSource \in BOOLEAN
  /\ distDirs \in SUBSET {"dist", "frontend/dist"}
  /\ archiveOnDisk \in BOOLEAN
  /\ archivePath = "null"
  /\ archiveBuildResult = NoBuildResult
  /\ archiveResult = NoArchiveResult
  /\ tarArgs = <<>>
  /\ uploadResult = NoUploadResult
  /\ cleanup = "none"
  /\ aexit = -1

\* process.exit(code): the process ends there, the finally block is not run
ArchiveExit(code) == apc' = "exited" /\ aexit' = code

\* Step 1 of deploy: buildFrontend, the exit when it failed, and the catch of
\* deploy (process.exit(1), no finally) when it threw
ArchiveBuild ==
  /\ apc = "build"
  /\ \E p \in FrontendPackages : \E locks \in {{}, {"yarn.lock"}} : \E child \in ChildOutcomes :
       IF buildFrontendThrows(p, locks, child)
       THEN archiveBuildResult' = archiveBuildResult /\ ArchiveExit(1)
       ELSE /\ archiveBuildResult' = buildFrontend(p, locks, child)
            /\ IF archiveBuildResult'.success
               THEN apc' = "archive" /\ aexit' = aexit
               ELSE ArchiveExit(1)
  /\ UNCHANGED <<includeSource, distDirs, archiveOnDisk, archivePath, archiveResult, tarArgs,
                 uploadResult, cleanup>>

\* Step 2 of deploy: createArchive, the exit when it failed (or when the
\* removal of an earlier archive threw), and archivePath = archiveResult.archivePath.
\* When spawn or the 'close' handler of tar throws, the process ends with
\* status 1 and createArchive has given no result; in the second case the
\* archive stays on disk.
ArchiveCreate ==
  /\ apc = "archive"
  /\ \E removal \in (IF archiveOnDisk THEN {"ok", "throws"} ELSE {"ok"}) :
       IF removal = "throws"
       THEN /\ ArchiveExit(1)
            /\ UNCHANGED <<archiveOnDisk, archivePath, archiveResult, tarArgs>>
       ELSE /\ tarArgs' = TarArgs(includeSource, distDirs)
            /\ IF tarArgs' = <<>>
               THEN /\ archiveResult' = [success |-> FALSE, archivePath |-> "null",
                                         error |-> "No dist/ directory found"]
                    /\ archiveOnDisk' = FALSE
               ELSE \E tar \in TarOutcomes :
                      /\ archiveResult' =
                           IF createArchiveThrows(tar) THEN archiveResult ELSE TarResult(tar)
                      /\ archiveOnDisk' = tar.written
            /\ IF archiveResult'.success
               THEN /\ archivePath' = archiveResult'.archivePath
                    /\ apc' = "upload"
                    /\ aexit' = aexit
               ELSE /\ archivePath' = archivePath
                    /\ ArchiveExit(1)
  /\ UNCHANGED <<includeSource, distDirs, archiveBuildResult, uploadResult, cleanup>>

\* Step 3 of deploy: uploadToBackend, and the exit when it failed
ArchiveUpload ==
  /\ apc = "upload"
  /\ \E answer \in BackendAnswers : uploadResult' = uploadToBackend(answer)
  /\ IF uploadResult'.success
     THEN apc' = "finally" /\ aexit' = aexit
     ELSE ArchiveExit(1)
  /\ UNCHANGED <<includeSource, distDirs, archiveOnDisk, archivePath, archiveBuildResult,
                 archiveResult, tarArgs, cleanup>>

\* the finally block of deploy, run when the try block was left without
\* process.exit: the archive is unlinked, an error of unlinkSync is ignored
ArchiveFinally ==
  /\ apc = "finally"
  /\ IF archivePath # "null" /\ archiveOnDisk
     THEN \E unlinked \in BOOLEAN :
            /\ archiveOnDisk' = ~unlinked
            /\ cleanup' = IF unlinked THEN "removed" ELSE "failed"
     ELSE UNCHANGED <<archiveOnDisk, cleanup>>
  /\ ArchiveExit(0)
  /\ UNCHANGED <<includeSource, distDirs, archivePath, archiveBuildResult, archiveResult,
                 tarArgs, uploadResult>>

NextArchive ==
  \/ ArchiveBuild /\ UNCHANGED outsideArchive
  \/ ArchiveCreate /\ UNCHANGED outsideArchive
  \/ ArchiveUpload /\ UNCHANGED outsideArchive
  \/ ArchiveFinally /\ UNCHANGED outsideArchive

SpecArchive == InitArchive /\ [][NextArchive]_vars

\* C28: once the archive was created, the archive file is removed before the
\* process ends on every exit path, the path where the upload to the backend
\* fails included (an unlinkSync that itself fails is left aside).
C28_ArchiveRemovedOnEveryExit ==
  (apc = "exited" /\ archiveResult.success) => (~archiveOnDisk \/ cleanup = "failed")

\* a fetch made by waitForDeployment was answered with an HTTP error
PollFetchFailed == HttpError \in Range(statuses) \/ HttpError \in Range(logAnswers)

\* C29: when a status fetch or the build log fetch of waitForDeployment is
\* answered with an HTTP error, the poll ends at once with that error: the
\* failed fetch is the last one made, it is not followed by a wait, and the
\* command exits with status 1 and sends no set-server-url request.
C29_HttpErrorEndsThePoll ==
  /\ \A i \in DOMAIN statuses : statuses[i] = HttpError => i = Len(statuses) /\ logAnswers = <<>>
  /\ Len(logAnswers) <= 1
  /\ PollFetchFailed =>
        /\ ppc = "thrown"
        /\ pollValue = HttpErrorMessage
        /\ sleeps = Len(statuses) - 1
        /\ urlRequests = 0
        /\ dpc \in {"polling", "exited"}
        /\ dpc = "exited" =>
              /\ exitCode = 1
              /\ deployLog = <<"Deployment Status Unknown", HttpErrorMessage>>

C29_Witness ==
  /\ dpc = "exited"
  /\ Len(statuses) = 3
  /\ statuses[3] = HttpError
  /\ sleeps = 2
  /\ exitCode = 1
  /\ urlRequests = 0

(***************************************************************************)
(* qb-deploy-cron-and-comms: sendCronConfig, sendTemplatesForApproval and  *)
(* deployAll                                                               *)
(***************************************************************************)
\* The values CONFIG.cron and CONFIG.communication_templates are given:
\* missing, an object that is no array, and arrays of 0, 1 and 2 entries.
ConfigValues ==
  {Undefined, [kind |-> "object", items |-> <<>>], ArrayOf(<<>>), ArrayOf(<<"e1">>),
   ArrayOf(<<"e1", "e2">>)}

\* !config.x || !Array.isArray(config.x) is false
IsArray(value) == value.kind = "array"

\* the function gets past the length === 0 return, to platformApiCall
SendsRequest(value) == IsArray(value) /\ Len(value.items) # 0

\* what the platform answers to a POST
PlatformAnswers ==
  {"ok", "ok with success false", "non-JSON", "status 500", "fetch failed"}

\* the message of the Error sendCronConfig throws after the request, "" when
\* it returns
CronAnswerError(answer) ==
  IF answer \in {"ok", "ok with success false"} THEN ""
  ELSE IF answer = "non-JSON" THEN "Non-JSON response received"
  ELSE IF answer = "status 500" THEN "API request failed: 500"
  ELSE answer

\* the same for sendTemplatesForApproval: response.text() after a failed
\* response.json() throws, the body being read already
TemplatesAnswerError(answer) ==
  IF answer \in {"ok", "ok with success false"} THEN ""
  ELSE IF answer = "non-JSON" THEN "Body is unusable"
  ELSE IF answer = "status 500" THEN "API request failed: 500"
  ELSE answer

Request(path, body) == [method |-> "POST", path |-> path, body |-> body]

DeployAllExitAlwaysZero(failure) == 0

\* if (hasFailure) process.exit(1); otherwise the process ends with status 0
DeployAllExit(failure) == IF failure THEN 1 ELSE 0

\* qb-deploy-cron-and-comms at the call of deployAll, CONFIG loaded
InitCron ==
  /\ IdleEnv
  /\ IdleArchive
  /\ IdleCollect
  /\ IdleRetry
  /\ IdleSync
  /\ IdlePoll
  /\ IdleMigrate
  /\ IdleFront
  /\ kpc = "cron"
  /\ config \in [cron : ConfigValues, communication_templates : ConfigValues]
  /\ requests = <<>>
  /\ hasFailure = FALSE
  /\ cronError = "none"
  /\ templatesError = "none"
  /\ kexit = -1

\* the first try of deployAll: await sendCronConfig(), hasFailure = true in
\* the catch
DeployAllCron ==
  /\ kpc = "cron"
  /\ IF SendsRequest(config.cron)
     THEN \E answer \in PlatformAnswers :
            /\ requests' = Append(requests, Request("cron/create", config.cron.items))
            /\ cronError' = CronAnswerError(answer)
     ELSE /\ requests' = requests
          /\ cronError' = IF IsArray(config.cron) THEN ""
                          ELSE "Config file must contain a \"cron\" array"
  /\ hasFailure' = (hasFailure \/ cronError' # "")
  /\ kpc' = "templates"
  /\ UNCHANGED <<config, templatesError, kexit>>

\* the second try of deployAll: await sendTemplatesForApproval()
DeployAllTemplates ==
  /\ kpc = "templates"
  /\ IF SendsRequest(config.communication_templates)
     THEN \E answer \in PlatformAnswers :
            /\ requests' = Append(requests, Request("request-template-approval",
                                                    config.communication_templates.items))
            /\ templatesError' = TemplatesAnswerError(answer)
     ELSE /\ requests' = requests
          /\ templatesError' =
               IF IsArray(config.communication_templates) THEN ""
               ELSE "Config file must contain a \"communication_templates\" array"
  /\ hasFailure' = (hasFailure \/ templatesError' # "")
  /\ kpc' = "end"
  /\ UNCHANGED <<config, cronError, kexit>>

\* the end of deployAll
DeployAllEnd ==
  /\ kpc = "end"
  /\ kexit' = DeployAllExit(hasFailure)
  /\ kpc' = "exited"
  /\ UNCHANGED <<config, requests, hasFailure, cronError, templatesError>>

NextCron ==
  \/ DeployAllCron /\ UNCHANGED outsideCron
  \/ DeployAllTemplates /\ UNCHANGED outsideCron
  \/ DeployAllEnd /\ UNCHANGED outsideCron

SpecCron == InitCron /\ [][NextCron]_vars

\* the requests sent to one path
RequestsTo(path) == {i \in DOMAIN requests : requests[i].path = path}

\* C30: the cron deployment and the template submission are attempted
\* independently and in that order: the template submission is attempted
\* whether or not the cron deployment failed, an empty cron or template list
\* sends no request for that part, and the process exits with status 1
\* exactly when at least one of the two failed, else with 0.
C30_CronThenTemplatesIndependently ==
  /\ kpc = "cron" => (cronError = "none" /\ templatesError = "none" /\ requests = <<>>)
  /\ kpc = "templates" => (cronError # "none" /\ templatesError = "none")
  /\ kpc \in {"end", "exited"} => (cronError # "none" /\ templatesError # "none")
  /\ \A i \in RequestsTo("request-template-approval") :
        \A j \in RequestsTo("cron/create") : j < i
  /\ kpc # "cron" =>
        Cardinality(RequestsTo("cron/create")) = IF config.cron.items = <<>> THEN 0 ELSE 1
  /\ kpc \in {"end", "exited"} =>
        Cardinality(RequestsTo("request-template-approval")) =
           IF config.communication_templates.items = <<>> THEN 0 ELSE 1
  /\ config.cron = ArrayOf(<<>>) => cronError \in {"none", ""}
  /\ config.communication_templates = ArrayOf(<<>>) => templatesError \in {"none", ""}
  /\ Len(requests) <= 2
  /\ kpc = "exited" =>
        /\ kexit \in {0, 1}
        /\ kexit = 1 <=> (cronError # "" \/ templatesError # "")
  /\ kpc # "exited" => kexit = -1

C30_Witness ==
  /\ kpc = "exited"
  /\ cronError = "API request failed: 500"
  /\ templatesError = ""
  /\ Len(requests) = 2
  /\ requests[2].path = "request-template-approval"
  /\ kexit = 1

====
